---- MODULE Spec2Model ----
(***************************************************************************)
(* A model of the BVG MCP server: the call-tool dispatcher (src/index.ts), *)
(* the zod parameter schemas and the execute* handlers of the eight tools, *)
(* and the HTTP client BvgApiClient.get (src/utils/api.ts).                *)
(*                                                                         *)
(* JSON values are records of one shape, so that values of different JSON  *)
(* types can sit in one set: t is the JSON type, and s, n/e, b, a, o hold  *)
(* the string, the number n / 10^e, the boolean, the array items and the   *)
(* object members.                                                         *)
(***************************************************************************)
EXTENDS Integers, Sequences, FiniteSets, TLC

\* ------------------------------------------------------------------ bounds

\* Concurrent call-tool invocations the host may have in flight.
NumCalls == 2
\* Fields of an argument mapping that may differ from a tool's base mapping.
MaxDeviations == 2

Calls == 1..NumCalls

\* ------------------------------------------------------------- JSON values

NoMembers == [k \in {} |-> 0]

Str(s) == [t |-> "string", s |-> s, n |-> 0, e |-> 0, b |-> FALSE, a |-> <<>>, o |-> NoMembers]
Dec(n, e) == [t |-> "number", s |-> "", n |-> n, e |-> e, b |-> FALSE, a |-> <<>>, o |-> NoMembers]
Num(n) == Dec(n, 0)
Bool(b) == [t |-> "boolean", s |-> "", n |-> 0, e |-> 0, b |-> b, a |-> <<>>, o |-> NoMembers]
Null == [t |-> "null", s |-> "", n |-> 0, e |-> 0, b |-> FALSE, a |-> <<>>, o |-> NoMembers]
\* JavaScript's undefined: the value of a missing property.
Undefined == [t |-> "undefined", s |-> "", n |-> 0, e |-> 0, b |-> FALSE, a |-> <<>>, o |-> NoMembers]
Arr(items) == [t |-> "array", s |-> "", n |-> 0, e |-> 0, b |-> FALSE, a |-> items, o |-> NoMembers]
Obj(members) == [t |-> "object", s |-> "", n |-> 0, e |-> 0, b |-> FALSE, a |-> <<>>, o |-> members]

RECURSIVE Pow10(_)
Pow10(k) == IF k = 0 THEN 1 ELSE 10 * Pow10(k - 1)

\* x <= y for two numbers n / 10^e.
NumLeq(x, y) == x.n * Pow10(y.e) <= y.n * Pow10(x.e)
NumLt(x, y) == x.n * Pow10(y.e) < y.n * Pow10(x.e)

\* JavaScript truthiness of a value, as `if (params.departure)` tests it.
Truthy(v) ==
    CASE v.t = "undefined" -> FALSE
      [] v.t = "null" -> FALSE
      [] v.t = "string" -> v.s # ""
      [] v.t = "number" -> v.n # 0
      [] v.t = "boolean" -> v.b
      [] OTHER -> TRUE

\* --------------------------------------------------------- zod field types

\* A field of a z.object: its type, whether it is required, optional or has a
\* default, and the checks chained on it.
ZField(type, presence, def, hasMin, min, hasMax, max, minLen, values) ==
    [type |-> type, presence |-> presence, def |-> def,
     hasMin |-> hasMin, min |-> min, hasMax |-> hasMax, max |-> max,
     minLen |-> minLen, values |-> values]

\* z.string() / z.string().min(k)
ZString(minLen) == ZField("string", "required", Undefined, FALSE, 0, FALSE, 0, minLen, {})
\* z.string().optional()
ZStringOptional == ZField("string", "optional", Undefined, FALSE, 0, FALSE, 0, 0, {})
\* z.number()
ZNumber == ZField("number", "required", Undefined, FALSE, 0, FALSE, 0, 0, {})
\* z.number().min(lo).max(hi).default(d)
ZNumberRange(lo, hi, d) == ZField("number", "default", Num(d), TRUE, lo, TRUE, hi, 0, {})
\* z.boolean().default(d)
ZBoolean(d) == ZField("boolean", "default", Bool(d), FALSE, 0, FALSE, 0, 0, {})
\* z.enum(values).default(d)
ZEnum(values, d) == ZField("enum", "default", Str(d), FALSE, 0, FALSE, 0, 0, values)
\* z.enum(values).optional()
ZEnumOptional(values) == ZField("enum", "optional", Undefined, FALSE, 0, FALSE, 0, 0, values)

ZLanguage == ZEnum({"de", "en"}, "en")

\* ------------------------------------------------------------ tool schemas

LocationsSearchSchema ==
    [query |-> ZString(1),
     results |-> ZNumberRange(1, 100, 10),
     addresses |-> ZBoolean(TRUE),
     poi |-> ZBoolean(TRUE),
     linesOfStops |-> ZBoolean(FALSE),
     language |-> ZLanguage]

NearbyLocationsSchema ==
    [coordinates |-> ZString(0),
     results |-> ZNumberRange(1, 100, 8),
     distance |-> ZNumberRange(1, 10000, 1000),
     stops |-> ZBoolean(TRUE),
     poi |-> ZBoolean(FALSE),
     linesOfStops |-> ZBoolean(FALSE),
     language |-> ZLanguage]

StopDetailsSchema ==
    [stopId |-> ZString(1),
     linesOfStops |-> ZBoolean(FALSE),
     language |-> ZLanguage]

StopDeparturesSchema ==
    [stopId |-> ZString(1),
     when |-> ZStringOptional,
     duration |-> ZNumberRange(1, 1440, 120),
     results |-> ZNumberRange(1, 100, 10),
     linesOfStops |-> ZBoolean(FALSE),
     remarks |-> ZBoolean(TRUE),
     language |-> ZLanguage]

JourneyPlanSchema ==
    [from |-> ZString(1),
     to |-> ZString(1),
     via |-> ZStringOptional,
     departure |-> ZStringOptional,
     arrival |-> ZStringOptional,
     results |-> ZNumberRange(1, 6, 3),
     stopovers |-> ZBoolean(FALSE),
     transfers |-> ZNumberRange(-1, 10, -1),
     transferTime |-> ZNumberRange(0, 60, 0),
     accessibility |-> ZEnumOptional({"partial", "complete"}),
     bike |-> ZBoolean(FALSE),
     walkingSpeed |-> ZEnum({"slow", "normal", "fast"}, "normal"),
     startWithWalking |-> ZBoolean(TRUE),
     endWithWalking |-> ZBoolean(TRUE),
     language |-> ZLanguage]

\* The trip schema with the stopovers default of the journey schema.
TripDetailsSchemaStopoversOff ==
    [tripId |-> ZString(1),
     lineName |-> ZStringOptional,
     stopovers |-> ZBoolean(FALSE),
     polyline |-> ZBoolean(FALSE),
     language |-> ZLanguage]

TripDetailsSchema ==
    [tripId |-> ZString(1),
     lineName |-> ZStringOptional,
     stopovers |-> ZBoolean(TRUE),
     polyline |-> ZBoolean(FALSE),
     language |-> ZLanguage]

\* The radar schema with frames limited to 10.
RadarSchemaFramesMax10 ==
    [north |-> ZNumber,
     west |-> ZNumber,
     south |-> ZNumber,
     east |-> ZNumber,
     results |-> ZNumberRange(1, 256, 256),
     duration |-> ZNumberRange(1, 30, 30),
     frames |-> ZNumberRange(1, 10, 3),
     polylines |-> ZBoolean(TRUE),
     language |-> ZLanguage]

RadarSchema ==
    [north |-> ZNumber,
     west |-> ZNumber,
     south |-> ZNumber,
     east |-> ZNumber,
     results |-> ZNumberRange(1, 256, 256),
     duration |-> ZNumberRange(1, 30, 30),
     frames |-> ZNumberRange(1, 20, 3),
     polylines |-> ZBoolean(TRUE),
     language |-> ZLanguage]


\* ----------------------------------------------------------------- strings

\* The characters of the strings that the code takes apart (String.split,
\* String.trim, parseFloat, encodeURIComponent). A string is a TLA+ string; code
\* that looks inside one works on its characters.
CharTable ==
    "" :> <<>> @@
    "52.5200,13.4050" :> <<"5", "2", ".", "5", "2", "0", "0", ",", "1", "3", ".", "4", "0", "5", "0">> @@
    "52.52" :> <<"5", "2", ".", "5", "2">> @@
    "1,2,3" :> <<"1", ",", "2", ",", "3">> @@
    "52.5abc,13.4" :> <<"5", "2", ".", "5", "a", "b", "c", ",", "1", "3", ".", "4">> @@
    "91,13.4" :> <<"9", "1", ",", "1", "3", ".", "4">> @@
    "52.5,181" :> <<"5", "2", ".", "5", ",", "1", "8", "1">> @@
    "-90,-180" :> <<"-", "9", "0", ",", "-", "1", "8", "0">> @@
    "90,180" :> <<"9", "0", ",", "1", "8", "0">> @@
    " 52.5 , 13.4 " :> <<" ", "5", "2", ".", "5", " ", ",", " ", "1", "3", ".", "4", " ">> @@
    "abc,13.4" :> <<"a", "b", "c", ",", "1", "3", ".", "4">> @@
    "52.5," :> <<"5", "2", ".", "5", ",">> @@
    "-90.5,13.4" :> <<"-", "9", "0", ".", "5", ",", "1", "3", ".", "4">> @@
    "52.5,-180.5" :> <<"5", "2", ".", "5", ",", "-", "1", "8", "0", ".", "5">> @@
    ".." :> <<".", ".">> @@
    "900100003" :> <<"9", "0", "0", "1", "0", "0", "0", "0", "3">> @@
    "A" :> <<"A">> @@
    "B" :> <<"B">> @@
    "1|U8|42" :> <<"1", "|", "U", "8", "|", "4", "2">> @@
    "Alexanderplatz" :> <<"A", "l", "e", "x", "a", "n", "d", "e", "r", "p", "l", "a", "t", "z">> @@
    "2024-01-01T10:00" :> <<"2", "0", "2", "4", "-", "0", "1", "-", "0", "1", "T", "1", "0", ":", "0", "0">> @@
    "2024-01-01T12:00" :> <<"2", "0", "2", "4", "-", "0", "1", "-", "0", "1", "T", "1", "2", ":", "0", "0">> @@
    "U8" :> <<"U", "8">> @@
    "x" :> <<"x">>

Chars(s) == CharTable[s]

Digits == <<"0", "1", "2", "3", "4", "5", "6", "7", "8", "9">>
IsDigit(c) == \E i \in 1..10 : Digits[i] = c
DigitVal(c) == (CHOOSE i \in 1..10 : Digits[i] = c) - 1

\* String.prototype.trim on characters (the only white space modelled is " ").
RECURSIVE TrimLeft(_)
TrimLeft(cs) == IF cs # <<>> /\ Head(cs) = " " THEN TrimLeft(Tail(cs)) ELSE cs
RECURSIVE TrimRight(_)
TrimRight(cs) ==
    IF cs # <<>> /\ cs[Len(cs)] = " " THEN TrimRight(SubSeq(cs, 1, Len(cs) - 1)) ELSE cs
Trim(cs) == TrimRight(TrimLeft(cs))

\* String.prototype.split(sep) on characters: always at least one part.
RECURSIVE SplitFrom(_, _, _)
SplitFrom(cs, sep, cur) ==
    IF cs = <<>> THEN <<cur>>
    ELSE IF Head(cs) = sep THEN <<cur>> \o SplitFrom(Tail(cs), sep, <<>>)
    ELSE SplitFrom(Tail(cs), sep, Append(cur, Head(cs)))
Split(cs, sep) == SplitFrom(cs, sep, <<>>)

\* The longest prefix of cs made of digits.
RECURSIVE DigitPrefix(_)
DigitPrefix(cs) ==
    IF cs # <<>> /\ IsDigit(Head(cs)) THEN <<Head(cs)>> \o DigitPrefix(Tail(cs)) ELSE <<>>

RECURSIVE DigitsValue(_, _)
DigitsValue(cs, acc) ==
    IF cs = <<>> THEN acc ELSE DigitsValue(Tail(cs), 10 * acc + DigitVal(Head(cs)))

\* n / 10^e without trailing zeros in the fraction.
RECURSIVE Normalize(_, _)
Normalize(n, e) == IF e > 0 /\ n % 10 = 0 THEN Normalize(n \div 10, e - 1) ELSE Dec(n, e)

NaN == [nan |-> TRUE, v |-> Num(0)]
Finite(v) == [nan |-> FALSE, v |-> v]

\* parseFloat on characters: skips leading white space, then reads the longest
\* prefix [+-]digits[.digits] and ignores what follows it; NaN when that prefix
\* holds no digit. (Exponents and "Infinity" are not among the modelled strings.)
FloatOf(neg, int, frac) ==
    IF int = <<>> /\ frac = <<>> THEN NaN
    ELSE Finite(Normalize((IF neg THEN 0 - 1 ELSE 1) * DigitsValue(int \o frac, 0), Len(frac)))

FractionAfter(rest) ==
    IF rest # <<>> /\ Head(rest) = "." THEN DigitPrefix(Tail(rest)) ELSE <<>>

FloatOfDigits(neg, body, int) ==
    FloatOf(neg, int, FractionAfter(SubSeq(body, Len(int) + 1, Len(body))))

FloatOfBody(neg, body) == FloatOfDigits(neg, body, DigitPrefix(body))

FloatOfTrimmed(cs) ==
    IF cs # <<>> /\ Head(cs) \in {"-", "+"} THEN FloatOfBody(Head(cs) = "-", Tail(cs))
    ELSE FloatOfBody(FALSE, cs)

ParseFloat(str) == FloatOfTrimmed(TrimLeft(str))

\* String(value) for the values a query carries.
RECURSIVE PadDigits(_, _)
PadDigits(x, k) == IF k = 0 THEN "" ELSE PadDigits(x \div 10, k - 1) \o ToString(x % 10)

Abs(n) == IF n < 0 THEN 0 - n ELSE n

\* Number.prototype.toString of n / 10^e (normalized, so no trailing zeros).
JsNumberString(v) ==
    (IF v.n < 0 THEN "-" ELSE "") \o ToString(Abs(v.n) \div Pow10(v.e))
    \o (IF v.e = 0 THEN "" ELSE "." \o PadDigits(Abs(v.n) % Pow10(v.e), v.e))

JsString(v) ==
    CASE v.t = "string" -> v.s
      [] v.t = "number" -> JsNumberString(v)
      [] v.t = "boolean" -> IF v.b THEN "true" ELSE "false"
      [] v.t = "null" -> "null"
      [] OTHER -> "undefined"

\* ------------------------------------------------------------------ errors

\* A thrown value: its class, the McpError code if it has one, and its message
\* as the sequence of the parts it was composed from, outermost prefix first.
Thrown(class, code, message, issues) ==
    [class |-> class, code |-> code, message |-> message, issues |-> issues]
JsError(message) == Thrown("Error", "", message, {})
TypeError(message) == Thrown("TypeError", "", message, {})
SyntaxError(message) == Thrown("SyntaxError", "", message, {})
\* zod's error: one issue per violated field (or "" for the mapping itself).
ZodError(issues) == Thrown("ZodError", "", <<"ZodError">>, issues)
McpError(code, message) == Thrown("McpError", code, message, {})
NoError == Thrown("", "", <<>>, {})

\* `error instanceof Error`: every class above extends Error; a thrown value
\* that is no Error has class "value".
InstanceOfError(err) == err.class \in {"Error", "TypeError", "SyntaxError", "ZodError", "McpError"}

\* ------------------------------------------------------------- zod parsing

NoFields == [k \in {} |-> Undefined]

\* The argument mapping of a request: params.arguments is an object or absent.
ArgsObject(m) == [kind |-> "object", m |-> m]
ArgsUndefined == [kind |-> "undefined", m |-> NoFields]

\* obj[key] in JavaScript: undefined for a missing property.
Get(m, k) == IF k \in DOMAIN m THEN m[k] ELSE Undefined

\* The type and the chained checks of one field on a present value.
ZCheck(f, v) ==
    CASE f.type = "string" -> v.t = "string" /\ Len(v.s) >= f.minLen
      [] f.type = "number" ->
            /\ v.t = "number"
            /\ f.hasMin => NumLeq(Num(f.min), v)
            /\ f.hasMax => NumLeq(v, Num(f.max))
      [] f.type = "boolean" -> v.t = "boolean"
      [] f.type = "enum" -> v.t = "string" /\ v.s \in f.values
      [] OTHER -> FALSE

\* One field: a missing key takes the default (ZodDefault), stays absent
\* (ZodOptional) or is an issue; a present value is checked.
ZFieldOk(f, v) ==
    IF v.t = "undefined" THEN f.presence \in {"default", "optional"} ELSE ZCheck(f, v)

ZFieldValue(f, v) ==
    IF v.t = "undefined" /\ f.presence = "default" THEN f.def ELSE v

\* Keys of the input that the object schema does not declare. z.object() is
\* created without .strict(): its unknown-key policy is "strip".
ZUnknownKeys(schema, m) == DOMAIN m \ DOMAIN schema
\* The unknown-key policy of z.object(...).strict(): every unknown key is an issue.
ZUnknownKeyIssuesStrict(schema, m) == ZUnknownKeys(schema, m)

ZUnknownKeyIssues(schema, m) == {}

\* The declared fields whose value violates the schema, with the issues of the
\* unknown-key policy.
ZIssues(schema, m) ==
    {k \in DOMAIN schema : ~ZFieldOk(schema[k], Get(m, k))} \cup ZUnknownKeyIssues(schema, m)

\* The output of a successful parse: the declared fields that have a value,
\* defaults filled in, and no other key.
ZOutput(schema, m) ==
    [k \in {x \in DOMAIN schema : ZFieldValue(schema[x], Get(m, x)).t # "undefined"}
        |-> ZFieldValue(schema[k], Get(m, k))]

ParseResult(issues, data) ==
    IF issues # {} THEN [ok |-> FALSE, data |-> NoFields, issues |-> issues]
    ELSE [ok |-> TRUE, data |-> data, issues |-> {}]

\* Schema.parse(args): [ok, data, issues].
SchemaParse(schema, args) ==
    IF args.kind # "object" THEN [ok |-> FALSE, data |-> NoFields, issues |-> {""}]
    ELSE ParseResult(ZIssues(schema, args.m), ZOutput(schema, args.m))

\* ---------------------------------------------------------------- registry

\* The names the dispatcher's switch has a case for, in the order of the cases.
ToolNames ==
    <<"bvg_locations_search", "bvg_locations_nearby", "bvg_stop_details",
      "bvg_stop_departures", "bvg_stop_arrivals", "bvg_journey_plan",
      "bvg_trip_details", "bvg_radar">>

Registered(name) == \E i \in DOMAIN ToolNames : ToolNames[i] = name

\* The schema each case parses the arguments with.
SchemaOf(name) ==
    CASE name = "bvg_locations_search" -> LocationsSearchSchema
      [] name = "bvg_locations_nearby" -> NearbyLocationsSchema
      [] name = "bvg_stop_details" -> StopDetailsSchema
      [] name = "bvg_stop_departures" -> StopDeparturesSchema
      [] name = "bvg_stop_arrivals" -> StopDeparturesSchema
      [] name = "bvg_journey_plan" -> JourneyPlanSchema
      [] name = "bvg_trip_details" -> TripDetailsSchema
      [] name = "bvg_radar" -> RadarSchema

\* The tool objects the tool modules export, by the name they advertise.
locationsSearchTool == [name |-> "bvg_locations_search"]
nearbyLocationsTool == [name |-> "bvg_locations_nearby"]
stopDetailsTool == [name |-> "bvg_stop_details"]
stopDeparturesTool == [name |-> "bvg_stop_departures"]
stopArrivalsTool == [name |-> "bvg_stop_arrivals"]
journeyPlanTool == [name |-> "bvg_journey_plan"]
tripDetailsTool == [name |-> "bvg_trip_details"]
radarTool == [name |-> "bvg_radar"]

\* The tools array with the arrivals tool left out.
ListToolsResultNoArrivals ==
    <<locationsSearchTool, nearbyLocationsTool, stopDetailsTool, stopDeparturesTool,
      journeyPlanTool, tripDetailsTool, radarTool>>

\* The tools array the list-tools handler returns.
ListToolsResult ==
    <<locationsSearchTool, nearbyLocationsTool, stopDetailsTool, stopDeparturesTool,
      stopArrivalsTool, journeyPlanTool, tripDetailsTool, radarTool>>

\* ----------------------------------------------------------- api.ts helpers

\* The checks of parseCoordinates on the two parsed numbers:
\* [ok, error, latitude, longitude].
CoordinatesFail(msg) ==
    [ok |-> FALSE, error |-> JsError(<<msg>>), latitude |-> Num(0), longitude |-> Num(0)]

\* parseCoordinates with `<=` and `>=` in its range tests: the bounds
\* themselves are refused.
CheckCoordinatesExclusive(lat, lon) ==
    IF lat.nan \/ lon.nan
    THEN CoordinatesFail("Invalid coordinates format. Expected \"latitude,longitude\"")
    ELSE IF NumLeq(lat.v, Num(-90)) \/ NumLeq(Num(90), lat.v)
    THEN CoordinatesFail("Latitude must be between -90 and 90")
    ELSE IF NumLeq(lon.v, Num(-180)) \/ NumLeq(Num(180), lon.v)
    THEN CoordinatesFail("Longitude must be between -180 and 180")
    ELSE [ok |-> TRUE, error |-> NoError, latitude |-> lat.v, longitude |-> lon.v]

CheckCoordinates(lat, lon) ==
    IF lat.nan \/ lon.nan
    THEN CoordinatesFail("Invalid coordinates format. Expected \"latitude,longitude\"")
    ELSE IF NumLt(lat.v, Num(-90)) \/ NumLt(Num(90), lat.v)
    THEN CoordinatesFail("Latitude must be between -90 and 90")
    ELSE IF NumLt(lon.v, Num(-180)) \/ NumLt(Num(180), lon.v)
    THEN CoordinatesFail("Longitude must be between -180 and 180")
    ELSE [ok |-> TRUE, error |-> NoError, latitude |-> lat.v, longitude |-> lon.v]

\* `const [lat, lon] = coords.split(',').map(s => parseFloat(s.trim()))` takes
\* the first two parts; a missing second part is undefined, and isNaN(undefined)
\* is true.
FirstTwoFloats(parts) ==
    CheckCoordinates(ParseFloat(Trim(parts[1])),
                     IF Len(parts) >= 2 THEN ParseFloat(Trim(parts[2])) ELSE NaN)

parseCoordinates(coords) == FirstTwoFloats(Split(Chars(coords), ","))

\* validateStopId(stopId)
validateStopId(v) == v.t = "string" /\ Len(v.s) > 0

\* encodeURIComponent on characters: A-Z a-z 0-9 - _ . ! ~ * ' ( ) stay, every
\* other character becomes its percent-encoded UTF-8 bytes.
Unreserved ==
    {"A", "B", "C", "D", "E", "F", "G", "H", "I", "J", "K", "L", "M", "N", "O", "P", "Q",
     "R", "S", "T", "U", "V", "W", "X", "Y", "Z",
     "a", "b", "c", "d", "e", "f", "g", "h", "i", "j", "k", "l", "m", "n", "o", "p", "q",
     "r", "s", "t", "u", "v", "w", "x", "y", "z",
     "0", "1", "2", "3", "4", "5", "6", "7", "8", "9",
     "-", "_", ".", "!", "~", "*", "'", "(", ")"}

PercentCode ==
    " " :> <<"%", "2", "0">> @@ "#" :> <<"%", "2", "3">> @@ "%" :> <<"%", "2", "5">> @@
    "&" :> <<"%", "2", "6">> @@ "+" :> <<"%", "2", "B">> @@ "," :> <<"%", "2", "C">> @@
    "/" :> <<"%", "2", "F">> @@ ":" :> <<"%", "3", "A">> @@ "=" :> <<"%", "3", "D">> @@
    "?" :> <<"%", "3", "F">> @@ "|" :> <<"%", "7", "C">>

RECURSIVE encodeURIComponent(_)
encodeURIComponent(cs) ==
    IF cs = <<>> THEN <<>>
    ELSE (IF Head(cs) \in Unreserved THEN <<Head(cs)>> ELSE PercentCode[Head(cs)])
         \o encodeURIComponent(Tail(cs))

\* new URL(endpoint, baseUrl).pathname as its segments. The endpoint starts with
\* "/", so it replaces the base's path; the URL parser drops a "." segment and
\* lets a ".." segment remove the segment before it (a trailing one of either
\* leaves an empty last segment).
Shorten(path) == IF path = <<>> THEN path ELSE SubSeq(path, 1, Len(path) - 1)

UrlSegment(path, seg, last) ==
    IF seg = <<".", ".">> THEN (IF last THEN Append(Shorten(path), <<>>) ELSE Shorten(path))
    ELSE IF seg = <<".">> THEN (IF last THEN Append(path, <<>>) ELSE path)
    ELSE Append(path, seg)

RECURSIVE UrlSegments(_, _)
UrlSegments(segs, path) ==
    IF segs = <<>> THEN path
    ELSE UrlSegments(Tail(segs), UrlSegment(path, Head(segs), Len(segs) = 1))

UrlPathname(endpoint) == UrlSegments(Split(Tail(endpoint), "/"), <<>>)

\* get() with `if (value)` for `if (value !== undefined && value !== null)`:
\* false, 0 and the empty string are dropped as well.
SearchParamsTruthy(params) ==
    [k \in {x \in DOMAIN params : Truthy(params[x])} |-> JsString(params[k])]

\* url.searchParams after the forEach of get(): one entry per key whose value is
\* neither undefined nor null, holding String(value).
SearchParams(params) ==
    [k \in {x \in DOMAIN params : params[x].t \notin {"undefined", "null"}}
        |-> JsString(params[k])]

\* The request fetch() is called with.
HttpRequest(endpoint, params) ==
    [path |-> UrlPathname(endpoint), query |-> SearchParams(params)]


\* ---------------------------------------------------------------- handlers

\* What an execute* function has done when it first suspends or throws: the
\* calls of bvgApi.get(endpoint, params) it made, and the error if it threw.
\* Every execute* function either throws before calling the client or calls it
\* once and awaits it.
Throws(err) == [threw |-> TRUE, error |-> err, calls |-> <<>>]
Gets(endpoint, params) ==
    [threw |-> FALSE, error |-> NoError,
     calls |-> <<[endpoint |-> endpoint, params |-> params]>>]

\* An object literal {k: params.k, ...} over the given keys.
Pick(p, keys) == [k \in keys |-> Get(p, k)]
\* `if (params.k) queryParams.k = params.k` for each of the given keys.
PickTruthy(p, keys) == [k \in {x \in keys : Truthy(Get(p, x))} |-> Get(p, k)]

executeLocationsSearchStart(p) ==
    Gets(<<"/", "l", "o", "c", "a", "t", "i", "o", "n", "s">>,
         Pick(p, {"query", "results", "addresses", "poi", "linesOfStops", "language"}))

\* executeNearbyLocations after `const {latitude, longitude} = parseCoordinates(...)`.
NearbyLocationsAt(p, c) ==
    IF ~c.ok THEN Throws(c.error)
    ELSE Gets(<<"/", "l", "o", "c", "a", "t", "i", "o", "n", "s", "/", "n", "e", "a", "r", "b", "y">>,
              [latitude |-> c.latitude, longitude |-> c.longitude]
              @@ Pick(p, {"results", "distance", "stops", "poi", "linesOfStops", "language"}))

executeNearbyLocationsStart(p) ==
    NearbyLocationsAt(p, parseCoordinates(Get(p, "coordinates").s))

executeStopDetailsStart(p) ==
    IF ~validateStopId(Get(p, "stopId")) THEN Throws(JsError(<<"Invalid stop ID provided">>))
    ELSE Gets(<<"/", "s", "t", "o", "p", "s", "/">> \o encodeURIComponent(Chars(Get(p, "stopId").s)),
              Pick(p, {"linesOfStops", "language"}))

executeStopDeparturesStart(p) ==
    IF ~validateStopId(Get(p, "stopId")) THEN Throws(JsError(<<"Invalid stop ID provided">>))
    ELSE Gets(<<"/", "s", "t", "o", "p", "s", "/">> \o encodeURIComponent(Chars(Get(p, "stopId").s)) \o <<"/", "d", "e", "p", "a", "r", "t", "u", "r", "e", "s">>,
              Pick(p, {"duration", "results", "linesOfStops", "remarks", "language"})
              @@ PickTruthy(p, {"when"}))

\* executeStopArrivals without the `if (params.when)` lines and with `remarks`
\* missing from its queryParams.
executeStopArrivalsStartNoWhen(p) ==
    IF ~validateStopId(Get(p, "stopId")) THEN Throws(JsError(<<"Invalid stop ID provided">>))
    ELSE Gets(<<"/", "s", "t", "o", "p", "s", "/">> \o encodeURIComponent(Chars(Get(p, "stopId").s)) \o <<"/", "a", "r", "r", "i", "v", "a", "l", "s">>,
              Pick(p, {"duration", "results", "linesOfStops", "language"}))

executeStopArrivalsStart(p) ==
    IF ~validateStopId(Get(p, "stopId")) THEN Throws(JsError(<<"Invalid stop ID provided">>))
    ELSE Gets(<<"/", "s", "t", "o", "p", "s", "/">> \o encodeURIComponent(Chars(Get(p, "stopId").s)) \o <<"/", "a", "r", "r", "i", "v", "a", "l", "s">>,
              Pick(p, {"duration", "results", "linesOfStops", "remarks", "language"})
              @@ PickTruthy(p, {"when"}))

\* The mutual-exclusion test on the wrong pair of fields.
BothTimesSetWrongField(p) == Truthy(Get(p, "departure")) /\ Truthy(Get(p, "via"))

\* The mutual-exclusion test of executeJourneyPlan.
BothTimesSet(p) == Truthy(Get(p, "departure")) /\ Truthy(Get(p, "arrival"))

\* executeJourneyPlan without `if (params.arrival) queryParams.arrival = ...`.
executeJourneyPlanStartNoArrival(p) ==
    IF BothTimesSet(p)
    THEN Throws(JsError(<<"Cannot specify both departure and arrival time. Choose one.">>))
    ELSE Gets(<<"/", "j", "o", "u", "r", "n", "e", "y", "s">>,
              Pick(p, {"from", "to", "results", "stopovers", "transfers", "transferTime",
                       "bike", "walkingSpeed", "startWithWalking", "endWithWalking",
                       "language"})
              @@ PickTruthy(p, {"via", "departure", "accessibility"}))

executeJourneyPlanStart(p) ==
    IF BothTimesSet(p)
    THEN Throws(JsError(<<"Cannot specify both departure and arrival time. Choose one.">>))
    ELSE Gets(<<"/", "j", "o", "u", "r", "n", "e", "y", "s">>,
              Pick(p, {"from", "to", "results", "stopovers", "transfers", "transferTime",
                       "bike", "walkingSpeed", "startWithWalking", "endWithWalking",
                       "language"})
              @@ PickTruthy(p, {"via", "departure", "arrival", "accessibility"}))

executeTripDetailsStart(p) ==
    Gets(<<"/", "t", "r", "i", "p", "s", "/">> \o encodeURIComponent(Chars(Get(p, "tripId").s)),
         Pick(p, {"stopovers", "polyline", "language"}) @@ PickTruthy(p, {"lineName"}))

\* The bounding-box test with < for <=.
NorthBelowSouth(p) == NumLt(Get(p, "north"), Get(p, "south"))

\* The bounding-box tests of executeRadar.
NorthNotAboveSouth(p) == NumLeq(Get(p, "north"), Get(p, "south"))
EastNotBeyondWest(p) == NumLeq(Get(p, "east"), Get(p, "west"))

\* executeRadar with the request started before the bounding box is tested.
RadarCall(p) ==
    [endpoint |-> <<"/", "r", "a", "d", "a", "r">>,
     params |-> Pick(p, {"north", "west", "south", "east", "results", "duration", "frames",
                         "polylines", "language"})]

\* executeRadar with the two checks moved inside its try block: the catch block
\* puts the handler's prefix in front of their messages.
executeRadarStartChecksInTry(p) ==
    IF NumLeq(Get(p, "north"), Get(p, "south"))
    THEN Throws(JsError(<<"Failed to execute radar search: ",
                          "Northern boundary must be greater than southern boundary">>))
    ELSE IF NumLeq(Get(p, "east"), Get(p, "west"))
    THEN Throws(JsError(<<"Failed to execute radar search: ",
                          "Eastern boundary must be greater than western boundary">>))
    ELSE [threw |-> FALSE, calls |-> <<RadarCall(p)>>, error |-> NoError]

executeRadarStartFetchFirst(p) ==
    IF NumLeq(Get(p, "north"), Get(p, "south"))
    THEN [threw |-> TRUE, calls |-> <<RadarCall(p)>>,
          error |-> JsError(<<"Northern boundary must be greater than southern boundary">>)]
    ELSE IF NumLeq(Get(p, "east"), Get(p, "west"))
    THEN [threw |-> TRUE, calls |-> <<RadarCall(p)>>,
          error |-> JsError(<<"Eastern boundary must be greater than western boundary">>)]
    ELSE [threw |-> FALSE, calls |-> <<RadarCall(p)>>, error |-> NoError]

executeRadarStart(p) ==
    IF NorthNotAboveSouth(p)
    THEN Throws(JsError(<<"Northern boundary must be greater than southern boundary">>))
    ELSE IF EastNotBeyondWest(p)
    THEN Throws(JsError(<<"Eastern boundary must be greater than western boundary">>))
    ELSE Gets(<<"/", "r", "a", "d", "a", "r">>,
              Pick(p, {"north", "west", "south", "east", "results", "duration", "frames",
                       "polylines", "language"}))

\* The execute* function each case of the switch calls.
ExecuteStart(name, p) ==
    CASE name = "bvg_locations_search" -> executeLocationsSearchStart(p)
      [] name = "bvg_locations_nearby" -> executeNearbyLocationsStart(p)
      [] name = "bvg_stop_details" -> executeStopDetailsStart(p)
      [] name = "bvg_stop_departures" -> executeStopDeparturesStart(p)
      [] name = "bvg_stop_arrivals" -> executeStopArrivalsStart(p)
      [] name = "bvg_journey_plan" -> executeJourneyPlanStart(p)
      [] name = "bvg_trip_details" -> executeTripDetailsStart(p)
      [] name = "bvg_radar" -> executeRadarStart(p)

\* ------------------------------------------------------------- HTTP client

\* What fetch() settles with: it rejects (no response), or it resolves with a
\* status and a body; response.json() then yields the decoded body or throws.
FetchRejects == [kind |-> "reject", status |-> 0, decodable |-> FALSE, body |-> Undefined]
FetchResponse(status, body) ==
    [kind |-> "response", status |-> status, decodable |-> TRUE, body |-> body]
FetchGarbled(status) ==
    [kind |-> "response", status |-> status, decodable |-> FALSE, body |-> Undefined]
\* fetch() rejecting with a value that is no Error (a stubbed fetch may).
FetchRejectsWith(value) ==
    [kind |-> "reject-value", status |-> 0, decodable |-> FALSE, body |-> value]

\* response.ok taken for `status < 400`.
ResponseOkBelow400(status) == status >= 200 /\ status < 400

\* response.ok
ResponseOk(status) == status >= 200 /\ status <= 299

\* isApiError with `data.error` for `data.error === true`.
isApiErrorLoose(data) ==
    /\ Truthy(data)
    /\ data.t \in {"object", "array"}
    /\ Truthy(Get(data.o, "error"))
    /\ Get(data.o, "msg").t = "string"

\* BvgApiClient.isApiError(data)
isApiError(data) ==
    /\ Truthy(data)
    /\ data.t \in {"object", "array"}
    /\ Get(data.o, "error") = Bool(TRUE)
    /\ Get(data.o, "msg").t = "string"

Returns(value) == [ok |-> TRUE, value |-> value, error |-> NoError]
Fails(err) == [ok |-> FALSE, value |-> Undefined, error |-> err]

\* What the try block of get() does with the settled fetch: the value it
\* returns or the error it throws.
ClientTry(reply) ==
    IF reply.kind = "reject" THEN Fails(TypeError(<<"fetch failed">>))
    ELSE IF reply.kind = "reject-value" THEN Fails(Thrown("value", "", <<JsString(reply.body)>>, {}))
    ELSE IF ~ResponseOk(reply.status)
    THEN Fails(JsError(<<"HTTP error! status: ", ToString(reply.status)>>))
    ELSE IF ~reply.decodable THEN Fails(SyntaxError(<<"Unexpected token">>))
    ELSE IF isApiError(reply.body)
    THEN Fails(JsError(<<"BVG API error: ", JsString(Get(reply.body.o, "msg"))>>))
    ELSE Returns(reply.body)

\* get() without its catch block: whatever was thrown goes on as it is.
ClientCatchRethrows(err) == err

\* The catch block of get().
ClientCatch(err) ==
    IF InstanceOfError(err) THEN JsError(<<"Failed to fetch from BVG API: ">> \o err.message)
    ELSE JsError(<<"Unknown error occurred while fetching from BVG API">>)

\* BvgApiClient.get once fetch has settled.
ClientSettle(r) == IF r.ok THEN r ELSE Fails(ClientCatch(r.error))
ClientGet(reply) == ClientSettle(ClientTry(reply))

\* --------------------------------------------------------- handlers, part 2

\* response.<field> on the decoded body: a TypeError on null or undefined, the
\* member on an object, undefined on anything else.
Member(data, field) ==
    IF data.t \in {"null", "undefined"}
    THEN Fails(TypeError(<<"Cannot read properties of ", data.t>>))
    ELSE Returns(Get(data.o, field))

\* The arrivals handler copied from the departures handler with its
\* `response.departures` left in place.
UnwrapFieldArrivalsAsDepartures(name) ==
    CASE name \in {"bvg_stop_departures", "bvg_stop_arrivals"} -> "departures"
      [] name = "bvg_journey_plan" -> "journeys"
      [] name = "bvg_trip_details" -> "trip"
      [] OTHER -> ""

\* The field of the body that the handler returns ("" for the body itself).
UnwrapField(name) ==
    CASE name = "bvg_stop_departures" -> "departures"
      [] name = "bvg_stop_arrivals" -> "arrivals"
      [] name = "bvg_journey_plan" -> "journeys"
      [] name = "bvg_trip_details" -> "trip"
      [] OTHER -> ""

\* The catch block of the arrivals handler copied from the departures handler
\* with its message left in place.
HandlerPrefixArrivalsAsDepartures(name) ==
    CASE name = "bvg_locations_search" -> "Failed to search locations: "
      [] name = "bvg_locations_nearby" -> "Failed to find nearby locations: "
      [] name = "bvg_stop_details" -> "Failed to get stop details: "
      [] name \in {"bvg_stop_departures", "bvg_stop_arrivals"} -> "Failed to get stop departures: "
      [] name = "bvg_journey_plan" -> "Failed to plan journey: "
      [] name = "bvg_trip_details" -> "Failed to get trip details: "
      [] name = "bvg_radar" -> "Failed to execute radar search: "

\* The prefix of the handler's catch block.
HandlerPrefix(name) ==
    CASE name = "bvg_locations_search" -> "Failed to search locations: "
      [] name = "bvg_locations_nearby" -> "Failed to find nearby locations: "
      [] name = "bvg_stop_details" -> "Failed to get stop details: "
      [] name = "bvg_stop_departures" -> "Failed to get stop departures: "
      [] name = "bvg_stop_arrivals" -> "Failed to get stop arrivals: "
      [] name = "bvg_journey_plan" -> "Failed to plan journey: "
      [] name = "bvg_trip_details" -> "Failed to get trip details: "
      [] name = "bvg_radar" -> "Failed to execute radar search: "

\* The catch block of an execute* function.
HandlerCatch(name, err) ==
    JsError(<<HandlerPrefix(name)>>
            \o (IF InstanceOfError(err) THEN err.message ELSE <<"Unknown error">>))

\* The try block of an execute* function once the client's get() has settled:
\* `const response = await bvgApi.get(...); return response[.field]`.
ExecuteTry(name, got) ==
    IF ~got.ok THEN got
    ELSE IF UnwrapField(name) = "" THEN Returns(got.value)
    ELSE Member(got.value, UnwrapField(name))

ExecuteSettle(name, r) == IF r.ok THEN r ELSE Fails(HandlerCatch(name, r.error))
ExecuteFinish(name, got) == ExecuteSettle(name, ExecuteTry(name, got))

\* -------------------------------------------------------------- dispatcher

NoResponse == [kind |-> "none", code |-> "", message |-> <<>>, defined |-> FALSE, text |-> Undefined]

\* JSON.stringify(result, null, 2): undefined for undefined, else the text of
\* the value (a text is identified by the value it denotes).
Stringify(v) == [defined |-> v.t # "undefined", of |-> v]

\* `return {content: [{type: 'text', text: JSON.stringify(result, null, 2)}]}`
TextResponse(text) ==
    [kind |-> "result", code |-> "", message |-> <<>>, defined |-> text.defined, text |-> text.of]
ResultResponse(result) == TextResponse(Stringify(result))

\* The error response the protocol layer sends for a thrown McpError.
ErrorResponse(err) ==
    [kind |-> "error", code |-> err.code, message |-> err.message,
     defined |-> FALSE, text |-> Undefined]

\* The default case of the switch.
UnknownTool(name) == McpError("MethodNotFound", <<"Unknown tool: ", name>>)

\* The catch block without its `instanceof McpError` test: every error is
\* wrapped as an internal error.
DispatchCatchWrapsAll(err) ==
    McpError("InternalError",
             <<"Tool execution failed: ">>
             \o (IF InstanceOfError(err) THEN err.message ELSE <<"String(error)">>))

\* The catch block of the call-tool handler.
DispatchCatch(err) ==
    IF err.class = "McpError" THEN err
    ELSE McpError("InternalError",
                  <<"Tool execution failed: ">>
                  \o (IF InstanceOfError(err) THEN err.message ELSE <<"String(error)">>))

\* ------------------------------------------------------------------ inputs

\* The argument mapping of each tool that the inputs are built around.
BaseArgs(name) ==
    CASE name = "bvg_locations_search" -> [query |-> Str("Alexanderplatz")]
      [] name = "bvg_locations_nearby" -> [coordinates |-> Str("52.5200,13.4050")]
      [] name = "bvg_stop_details" -> [stopId |-> Str("900100003")]
      [] name = "bvg_stop_departures" -> [stopId |-> Str("900100003")]
      [] name = "bvg_stop_arrivals" -> [stopId |-> Str("900100003")]
      [] name = "bvg_journey_plan" -> [from |-> Str("A"), to |-> Str("B")]
      [] name = "bvg_trip_details" -> [tripId |-> Str("1|U8|42")]
      [] name = "bvg_radar" ->
            [north |-> Dec(526, 1), west |-> Dec(133, 1),
             south |-> Dec(525, 1), east |-> Dec(135, 1)]
      [] OTHER -> NoFields

\* A key no schema declares.
ExtraKey == "extra"

\* The values a key may take instead of its base value (Undefined: the key is
\* left out): valid ones, both ends of a range and the values next to them, a
\* value of a wrong type.
FieldCandidates(name, key, f) ==
    CASE key = "coordinates" ->
            {Undefined, Num(5), Str("52.52"), Str(""), Str("1,2,3"), Str("52.5abc,13.4"),
             Str("91,13.4"), Str("52.5,181"), Str("-90,-180"), Str("90,180"),
             Str(" 52.5 , 13.4 "), Str("abc,13.4"), Str("52.5,"), Str("-90.5,13.4"),
             Str("52.5,-180.5")}
      [] key \in {"stopId", "tripId"} -> {Undefined, Str(""), Num(5), Str("..")}
      [] key \in {"departure", "arrival"} -> {Str("2024-01-01T10:00"), Str(""), Num(5)}
      [] key \in {"north", "east"} ->
            {Undefined, Str("x"), Null,
             Get(BaseArgs(name), IF key = "north" THEN "south" ELSE "west"),
             Dec(0 - 5, 1)}
      [] key \in {"south", "west"} -> {Undefined, Bool(TRUE), Dec(1000, 1)}
      [] f.type = "string" -> {Undefined, Str("x"), Str(""), Num(5)}
      [] f.type = "number" ->
            {Num(f.min), Num(f.max), Num(f.min - 1), Num(f.max + 1),
             Dec(10 * f.min - 5, 1), Dec(10 * f.max + 5, 1), Str("x"), Null}
      [] f.type = "boolean" -> {Bool(TRUE), Bool(FALSE), Str("true")}
      [] f.type = "enum" -> {Str(v) : v \in f.values} \cup {Str("x"), Num(5)}

Candidates(name, key) ==
    IF key = ExtraKey THEN {Str("x")} ELSE FieldCandidates(name, key, SchemaOf(name)[key])

\* The mappings that set each of the given keys to one of its candidates.
RECURSIVE Settings(_, _)
Settings(name, keys) ==
    IF keys = {} THEN {NoFields}
    ELSE LET key == CHOOSE x \in keys : TRUE
         IN  {(key :> v) @@ d : v \in Candidates(name, key), d \in Settings(name, keys \ {key})}

\* The sets of at most MaxDeviations keys that a call of `name` sets.
DeviationKeys(name) ==
    {S \in SUBSET (DOMAIN SchemaOf(name) \cup {ExtraKey}) : Cardinality(S) <= MaxDeviations}

\* The base mapping with a deviation applied.
Deviate(base, d) ==
    [k \in {x \in DOMAIN base \cup DOMAIN d : Get(d, x).t # "undefined" \/ x \notin DOMAIN d}
        |-> IF k \in DOMAIN d THEN d[k] ELSE base[k]]

\* The tool names a call is tried with: the registered ones and some that are not.
RegisteredNames == {ToolNames[i] : i \in DOMAIN ToolNames}
UnregisteredNames == {"", "bvg_stops", "BVG_RADAR"}

\* The argument mappings an unregistered name is tried with.
StrayArgs == {ArgsUndefined, ArgsObject(NoFields), ArgsObject([query |-> Str("Alexanderplatz")])}

\* Decoded bodies of the upstream.
LocationA == Obj([type |-> Str("stop"), id |-> Str("900100003")])
LocationB == Obj([type |-> Str("stop"), id |-> Str("900100004")])
LocationC == Obj([type |-> Str("location"), id |-> Null])

ErrorBodies ==
    {Obj([error |-> Bool(TRUE), msg |-> Str("no results")]),
     Obj([error |-> Bool(TRUE), msg |-> Str("")]),
     Obj([error |-> Bool(TRUE), msg |-> Str("no results"), departures |-> Arr(<<LocationA>>)])}

NearErrorBodies ==
    {Obj([error |-> Bool(TRUE)]),
     Obj([error |-> Bool(TRUE), msg |-> Num(42)]),
     Obj([error |-> Bool(FALSE), msg |-> Str("no results")]),
     Obj([error |-> Str("true"), msg |-> Str("no results")]),
     Obj([error |-> Num(1), msg |-> Str("no results")]),
     Obj([msg |-> Str("no results")])}

PlainBodies ==
    {Arr(<<LocationA, LocationB, LocationC>>), Arr(<<>>), Null, Obj(NoMembers), Str("ok"),
     LocationA,
     Obj([departures |-> Arr(<<LocationA, LocationB>>)]),
     Obj([arrivals |-> Arr(<<LocationA, LocationB>>)]),
     Obj([journeys |-> Arr(<<LocationA>>)]),
     Obj([trip |-> LocationA])}

Bodies == ErrorBodies \cup NearErrorBodies \cup PlainBodies

\* What the upstream may answer to a request.
Replies ==
    {FetchRejects}
    \cup {FetchResponse(200, b) : b \in Bodies}
    \cup {FetchGarbled(s) : s \in {200, 500}}
    \cup {FetchResponse(s, b) :
            s \in {201, 299, 300, 404, 500},
            b \in {Obj([error |-> Bool(TRUE), msg |-> Str("no results")]),
                   Arr(<<LocationA, LocationB, LocationC>>)}}

\* ------------------------------------------------------------------- state

VARIABLES
    pc,        \* per call: "idle", "received", "awaiting" (fetch pending), "done"
    request,   \* per call: the tool name and the argument mapping received
    parsed,    \* per call: what Schema.parse returned ("none" before it ran)
    started,   \* per call: whether the tool's execute* function was entered
    http,      \* per call: the requests fetch() was called with, in order
    settled,   \* per call: what fetch settled with
    client,    \* per call: what bvgApi.get returned or threw
    response,  \* per call: the response sent to the host
    baseUrl,   \* bvgApi.baseUrl
    catalog    \* the tools of the last list-tools response (<<>> before the first)

vars == <<pc, request, parsed, started, http, settled, client, response, baseUrl, catalog>>

BVG_API_BASE_URL == "https://v6.bvg.transport.rest"

NoRequest == [name |-> "", args |-> ArgsUndefined]
NotParsed == [state |-> "none", ok |-> FALSE, data |-> NoFields, issues |-> {}]
NotSettled == [kind |-> "none", status |-> 0, decodable |-> FALSE, body |-> Undefined]
NotCalled == [state |-> "none", ok |-> FALSE, value |-> Undefined, error |-> NoError]

Init ==
    /\ pc = [c \in Calls |-> "idle"]
    /\ request = [c \in Calls |-> NoRequest]
    /\ parsed = [c \in Calls |-> NotParsed]
    /\ started = [c \in Calls |-> FALSE]
    /\ http = [c \in Calls |-> <<>>]
    /\ settled = [c \in Calls |-> NotSettled]
    /\ client = [c \in Calls |-> NotCalled]
    /\ response = [c \in Calls |-> NoResponse]
    /\ baseUrl = BVG_API_BASE_URL
    /\ catalog = <<>>

\* ----------------------------------------------------------------- actions

\* The host delivers a call-tool request.
CallTool(c) ==
    /\ pc[c] = "idle"
    /\ \/ \E name \in RegisteredNames : \E S \in DeviationKeys(name) :
             \E d \in Settings(name, S) :
                request' = [request EXCEPT ![c] =
                              [name |-> name, args |-> ArgsObject(Deviate(BaseArgs(name), d))]]
       \/ \E name \in RegisteredNames \cup UnregisteredNames : \E args \in StrayArgs :
             request' = [request EXCEPT ![c] = [name |-> name, args |-> args]]
    /\ pc' = [pc EXCEPT ![c] = "received"]
    /\ UNCHANGED <<parsed, started, http, settled, client, response, baseUrl, catalog>>

\* What the call-tool handler does with a request before it first suspends: the
\* switch on the name, Schema.parse, and the execute* function up to its await
\* of bvgApi.get (which builds the URL and calls fetch). Yields what parse
\* returned, whether execute* was entered, the requests made and the error
\* thrown, if any.
Requests(calls) ==
    [i \in DOMAIN calls |-> HttpRequest(calls[i].endpoint, calls[i].params)]

Parsed(p) == [state |-> "parsed", ok |-> p.ok, data |-> p.data, issues |-> p.issues]

\* `const result = await execute*(params)` up to the await.
RunExecute(p, s) ==
    [parsed |-> Parsed(p), started |-> TRUE, threw |-> s.threw, error |-> s.error,
     requests |-> Requests(s.calls)]

\* The case with safeParse in place of parse and its result never looked at:
\* execute* runs whatever the validation found.
RunParsedUnchecked(name, p) == RunExecute(p, ExecuteStart(name, p.data))

\* `const params = Schema.parse(args)`, which throws a ZodError, then execute*.
RunParsed(name, p) ==
    IF ~p.ok
    THEN [parsed |-> Parsed(p), started |-> FALSE, threw |-> TRUE,
          error |-> ZodError(p.issues), requests |-> <<>>]
    ELSE RunExecute(p, ExecuteStart(name, p.data))

DispatchRun(name, args) ==
    IF ~Registered(name)
    THEN [parsed |-> NotParsed, started |-> FALSE, threw |-> TRUE,
          error |-> UnknownTool(name), requests |-> <<>>]
    ELSE RunParsed(name, SchemaParse(SchemaOf(name), args))

\* The handler without its try/catch: an error thrown before the first await
\* leaves the handler and no response is written.
DispatchedUncaught(c, run) ==
    /\ parsed' = [parsed EXCEPT ![c] = run.parsed]
    /\ started' = [started EXCEPT ![c] = run.started]
    /\ http' = [http EXCEPT ![c] = http[c] \o run.requests]
    /\ response' = response
    /\ pc' = [pc EXCEPT ![c] = IF run.threw THEN "done" ELSE "awaiting"]

Dispatched(c, run) ==
    /\ parsed' = [parsed EXCEPT ![c] = run.parsed]
    /\ started' = [started EXCEPT ![c] = run.started]
    /\ http' = [http EXCEPT ![c] = http[c] \o run.requests]
    /\ IF run.threw
       THEN /\ response' = [response EXCEPT ![c] = ErrorResponse(DispatchCatch(run.error))]
            /\ pc' = [pc EXCEPT ![c] = "done"]
       ELSE /\ response' = response
            /\ pc' = [pc EXCEPT ![c] = "awaiting"]

\* The handler behind a lock held across the await: a request is taken up only
\* when no other invocation is suspended.
DispatchSerialized(c) ==
    /\ pc[c] = "received"
    /\ \A d \in Calls : pc[d] # "awaiting"
    /\ Dispatched(c, DispatchRun(request[c].name, request[c].args))
    /\ UNCHANGED <<request, settled, client, baseUrl, catalog>>

Dispatch(c) ==
    /\ pc[c] = "received"
    /\ Dispatched(c, DispatchRun(request[c].name, request[c].args))
    /\ UNCHANGED <<request, settled, client, baseUrl, catalog>>

\* What the call-tool handler answers once execute* has settled: the result as
\* text, or the error through the catch block.
Respond(r) ==
    IF r.ok THEN ResultResponse(r.value) ELSE ErrorResponse(DispatchCatch(r.error))

\* The handler with the tool name kept in a variable of the module, which a
\* later call overwrites while an earlier one is suspended: the call that
\* resumes finishes as the tool of the last call still suspended.
LastSuspended ==
    CHOOSE d \in Calls : pc[d] = "awaiting" /\ \A e \in Calls : pc[e] = "awaiting" => e <= d

SettledSharedName(c, reply, got) ==
    /\ settled' = [settled EXCEPT ![c] = reply]
    /\ client' = [client EXCEPT ![c] =
                    [state |-> "settled", ok |-> got.ok, value |-> got.value, error |-> got.error]]
    /\ response' = [response EXCEPT ![c] =
                      Respond(ExecuteFinish(request[LastSuspended].name, got))]

Settled(c, reply, got) ==
    /\ settled' = [settled EXCEPT ![c] = reply]
    /\ client' = [client EXCEPT ![c] =
                    [state |-> "settled", ok |-> got.ok, value |-> got.value, error |-> got.error]]
    /\ response' = [response EXCEPT ![c] = Respond(ExecuteFinish(request[c].name, got))]

\* get() with one retry: a failed attempt issues the same request again and
\* keeps waiting; the second attempt settles the call.
FetchSettlesRetrying(c) ==
    /\ pc[c] = "awaiting"
    /\ \E reply \in Replies :
          IF ClientTry(reply).ok \/ Len(http[c]) > 1
          THEN /\ Settled(c, reply, ClientGet(reply))
               /\ pc' = [pc EXCEPT ![c] = "done"]
               /\ http' = http
          ELSE /\ http' = [http EXCEPT ![c] = Append(http[c], http[c][1])]
               /\ UNCHANGED <<pc, settled, client, response>>
    /\ UNCHANGED <<request, parsed, started, baseUrl, catalog>>

\* fetch() settles (and response.json() after it) for a suspended call: get()
\* finishes, the execute* function finishes, and the handler responds.
FetchSettles(c) ==
    /\ pc[c] = "awaiting"
    /\ \E reply \in Replies : Settled(c, reply, ClientGet(reply))
    /\ pc' = [pc EXCEPT ![c] = "done"]
    /\ UNCHANGED <<request, parsed, started, http, baseUrl, catalog>>

\* One invocation, every input.
Next ==
    \/ CallTool(1)
    \/ Dispatch(1)
    \/ FetchSettles(1)

Spec == Init /\ [][Next]_vars

\* ------------------------------------------------- concurrent invocations

\* The requests and replies of the runs with several invocations in flight:
\* one of each outcome (result, validation failure, domain-check failure,
\* unknown tool) and of each kind of reply.
SomeRequests ==
    {[name |-> name, args |-> ArgsObject(BaseArgs(name))] :
        name \in {"bvg_locations_search", "bvg_stop_departures", "bvg_journey_plan"}}
    \cup {[name |-> "bvg_journey_plan",
           args |-> ArgsObject(Deviate(BaseArgs("bvg_journey_plan"),
                                       [departure |-> Str("2024-01-01T10:00"),
                                        arrival |-> Str("2024-01-01T10:00")]))],
          [name |-> "bvg_locations_nearby", args |-> ArgsObject(NoFields)],
          [name |-> "bvg_stops", args |-> ArgsObject(BaseArgs("bvg_stop_details"))]}

SomeReplies ==
    {FetchRejects,
     FetchResponse(200, Arr(<<LocationA, LocationB, LocationC>>)),
     FetchResponse(200, Obj([departures |-> Arr(<<LocationA, LocationB>>)])),
     FetchResponse(200, Obj([error |-> Bool(TRUE), msg |-> Str("no results")])),
     FetchResponse(404, Obj([error |-> Bool(TRUE), msg |-> Str("no results")]))}

\* The host delivers a call-tool request while others may be in flight.
CallToolAmong(c) ==
    /\ pc[c] = "idle"
    /\ \E r \in SomeRequests : request' = [request EXCEPT ![c] = r]
    /\ pc' = [pc EXCEPT ![c] = "received"]
    /\ UNCHANGED <<parsed, started, http, settled, client, response, baseUrl, catalog>>

\* fetch() settles for one of the suspended calls.
FetchSettlesAmong(c) ==
    /\ pc[c] = "awaiting"
    /\ \E reply \in SomeReplies : Settled(c, reply, ClientGet(reply))
    /\ pc' = [pc EXCEPT ![c] = "done"]
    /\ UNCHANGED <<request, parsed, started, http, baseUrl, catalog>>

\* Any number of invocations, interleaved at their suspension points.
NextConc ==
    \E c \in Calls :
        \/ CallToolAmong(c)
        \/ Dispatch(c)
        \/ FetchSettlesAmong(c)

SpecConc == Init /\ [][NextConc]_vars

\* Where an invocation stands: not delivered, delivered, suspended at its await
\* of fetch(), answered.
Positions == {"idle", "received", "awaiting", "done"}

\* The handler of call c runs from the delivered request to its first await or
\* to its response: the Dispatch(c) steps, told by the positions alone.
HandlerRuns(c) ==
    /\ pc[c] = "received"
    /\ pc' \in [Calls -> Positions]
    /\ pc'[c] \in {"awaiting", "done"}

\* The promise call c awaits settles and the handler resumes: the
\* FetchSettlesAmong(c) steps, told by the positions alone.
HandlerResumes(c) ==
    /\ pc[c] = "awaiting"
    /\ pc' \in [Calls -> Positions]
    /\ pc'[c] = "done"

\* The same invocations with progress: the event loop runs the handler of a
\* delivered request, and the promise of every fetch() issued settles.
SpecLive ==
    /\ Init
    /\ [][NextConc]_vars
    /\ \A c \in Calls : WF_pc(HandlerRuns(c)) /\ WF_pc(HandlerResumes(c))

\* ------------------------------------------------------ list tools and names

\* The host asks for the tools: the handler returns its array, whatever
\* happened before.
ListTools ==
    /\ catalog' = ListToolsResult
    /\ UNCHANGED <<pc, request, parsed, started, http, settled, client, response, baseUrl>>

\* The names the host may call: every name the switch knows, names it does
\* not know, and names that differ from a known one in case or by a space.
CalledNames == RegisteredNames \cup UnregisteredNames \cup {"Bvg_radar", "bvg_radar "}

\* The host delivers a call-tool request for one of these names.
CallToolNamed(c) ==
    /\ pc[c] = "idle"
    /\ \/ \E name \in RegisteredNames :
             request' = [request EXCEPT ![c] =
                           [name |-> name, args |-> ArgsObject(BaseArgs(name))]]
       \/ \E name \in CalledNames : \E args \in StrayArgs :
             request' = [request EXCEPT ![c] = [name |-> name, args |-> args]]
    /\ pc' = [pc EXCEPT ![c] = "received"]
    /\ UNCHANGED <<parsed, started, http, settled, client, response, baseUrl, catalog>>

\* One invocation at a time, with list-tools requests before, between and
\* after its steps.
NextCatalog ==
    \/ ListTools
    \/ CallToolNamed(1)
    \/ Dispatch(1)
    \/ FetchSettlesAmong(1)

SpecCatalog == Init /\ [][NextCatalog]_vars

\* ------------------------------------------------------ every fetch outcome

\* What fetch() and response.json() may settle with, a rejection with a value
\* that is no Error included.
EveryReply == Replies \cup {FetchRejectsWith(Str("x"))}

\* fetch() settles in any of these ways for a suspended call.
FetchSettlesAnyhow(c) ==
    /\ pc[c] = "awaiting"
    /\ \E reply \in EveryReply : Settled(c, reply, ClientGet(reply))
    /\ pc' = [pc EXCEPT ![c] = "done"]
    /\ UNCHANGED <<request, parsed, started, http, baseUrl, catalog>>

\* One invocation of any tool, its request settled in any way.
NextClient ==
    \/ CallToolNamed(1)
    \/ Dispatch(1)
    \/ FetchSettlesAnyhow(1)

SpecClient == Init /\ [][NextClient]_vars

\* ------------------------------------------------ advertised input shapes

\* A property of an inputSchema: its type and its minimum, maximum, minLength,
\* enum and pattern keywords (enum {} and pattern "" when not given).
JProperty(type, hasMinimum, minimum, hasMaximum, maximum, minLength, enum, pattern) ==
    [type |-> type, hasMinimum |-> hasMinimum, minimum |-> minimum,
     hasMaximum |-> hasMaximum, maximum |-> maximum, minLength |-> minLength,
     enum |-> enum, pattern |-> pattern]

JString(minLength, pattern) == JProperty("string", FALSE, 0, FALSE, 0, minLength, {}, pattern)
JNumber(minimum, maximum) == JProperty("number", TRUE, minimum, TRUE, maximum, 0, {}, "")
JBoolean == JProperty("boolean", FALSE, 0, FALSE, 0, 0, {}, "")
JEnum(values) == JProperty("string", FALSE, 0, FALSE, 0, 0, values, "")

\* The pattern of the `coordinates` property.
CoordinatesPattern == "^-?\\d+\\.\\d+,-?\\d+\\.\\d+$"

\* locationsSearchTool.inputSchema
locationsSearchInput ==
    [properties |->
        [query |-> JString(1, ""), results |-> JNumber(1, 100), addresses |-> JBoolean,
         poi |-> JBoolean, linesOfStops |-> JBoolean, language |-> JEnum({"de", "en"})],
     required |-> {"query"}]

\* nearbyLocationsTool.inputSchema
nearbyLocationsInput ==
    [properties |->
        [coordinates |-> JString(0, CoordinatesPattern), results |-> JNumber(1, 100),
         distance |-> JNumber(1, 10000), stops |-> JBoolean, poi |-> JBoolean,
         linesOfStops |-> JBoolean, language |-> JEnum({"de", "en"})],
     required |-> {"coordinates"}]

\* \d+ : one or more digits and nothing else.
AllDigits(cs) == cs # <<>> /\ \A i \in DOMAIN cs : IsDigit(cs[i])

\* -?\d+\.\d+ on the whole of a component.
SignedDecimalParts(parts) == Len(parts) = 2 /\ AllDigits(parts[1]) /\ AllDigits(parts[2])
SignedDecimal(cs) ==
    SignedDecimalParts(Split(IF cs # <<>> /\ Head(cs) = "-" THEN Tail(cs) ELSE cs, "."))

\* ^-?\d+\.\d+,-?\d+\.\d+$ on a string.
TwoSignedDecimals(parts) ==
    Len(parts) = 2 /\ SignedDecimal(parts[1]) /\ SignedDecimal(parts[2])
MatchesCoordinatesPattern(cs) == TwoSignedDecimals(Split(cs, ","))

\* Whether a value fits a property of an inputSchema.
JPropertyAccepts(prop, v) ==
    /\ v.t = prop.type
    /\ prop.type = "number" =>
          /\ prop.hasMinimum => NumLeq(Num(prop.minimum), v)
          /\ prop.hasMaximum => NumLeq(v, Num(prop.maximum))
    /\ prop.type = "string" =>
          /\ Len(v.s) >= prop.minLength
          /\ prop.enum # {} => v.s \in prop.enum
          /\ prop.pattern = CoordinatesPattern => MatchesCoordinatesPattern(Chars(v.s))

\* Whether an argument mapping fits an inputSchema: every required key is
\* there and every key that is a property fits it.
JSchemaAccepts(schema, m) ==
    /\ schema.required \subseteq DOMAIN m
    /\ \A k \in DOMAIN m \cap DOMAIN schema.properties :
          JPropertyAccepts(schema.properties[k], m[k])

\* ------------------------------------------------------------------ claims

\* The handler has run on the request of call c up to its first suspension.
Active(c) == pc[c] \in {"awaiting", "done"}
\* Call c ended with an error response.
Failed(c) == pc[c] = "done" /\ response[c].kind = "error"
\* The argument mapping of call c is an object that holds key k.
Supplies(c, k) == request[c].args.kind = "object" /\ k \in DOMAIN request[c].args.m
\* Key k of the query of the first request of call c holds the text.
QueryHas(c, k, text) ==
    /\ http[c] # <<>>
    /\ k \in DOMAIN http[c][1].query
    /\ http[c][1].query[k] = text
QueryLacks(c, k) == \A i \in DOMAIN http[c] : k \notin DOMAIN http[c][i].query

EightNames ==
    {"bvg_locations_search", "bvg_locations_nearby", "bvg_stop_details",
     "bvg_stop_departures", "bvg_stop_arrivals", "bvg_journey_plan",
     "bvg_trip_details", "bvg_radar"}

\* C1: an error response has the code 'method not found' exactly when the tool
\* name is none of the eight registered names: an unregistered name always ends
\* in 'method not found', and every failure of a registered tool (validation,
\* domain rule, HTTP client) ends in 'internal error'.
C1_MethodNotFoundIffUnregistered ==
    \A c \in Calls :
        pc[c] = "done" =>
            /\ request[c].name \notin EightNames =>
                  response[c].kind = "error" /\ response[c].code = "MethodNotFound"
            /\ request[c].name \in EightNames /\ response[c].kind = "error" =>
                  response[c].code = "InternalError"

\* An unregistered name, called with arguments a registered tool accepts, was
\* answered 'method not found'.
C1_Witness ==
    \E c \in Calls :
        /\ Failed(c)
        /\ request[c].name = "bvg_stops"
        /\ Supplies(c, "query")
        /\ response[c].code = "MethodNotFound"
        /\ ~started[c]

\* The fields each tool requires.
RequiredKeys(name) ==
    CASE name = "bvg_locations_search" -> {"query"}
      [] name = "bvg_locations_nearby" -> {"coordinates"}
      [] name \in {"bvg_stop_details", "bvg_stop_departures", "bvg_stop_arrivals"} -> {"stopId"}
      [] name = "bvg_journey_plan" -> {"from", "to"}
      [] name = "bvg_trip_details" -> {"tripId"}
      [] name = "bvg_radar" -> {"north", "west", "south", "east"}
      [] OTHER -> {}

\* The arguments of call c miss a required field, give `language` a value that
\* is not one of its two, or give `results` a value that is no number.
ViolatesConstraints(c) ==
    \/ request[c].args.kind # "object"
    \/ \E k \in RequiredKeys(request[c].name) : ~Supplies(c, k)
    \/ Supplies(c, "language") /\ request[c].args.m["language"] \notin {Str("de"), Str("en")}
    \/ Supplies(c, "results") /\ request[c].args.m["results"].t # "number"

\* C2: the execute* function of a registered tool starts only after the
\* arguments parsed successfully against the tool's schema; arguments that
\* violate the schema fail the invocation with no step of the handler taken
\* and no request made.
C2_HandlerOnlyAfterParse ==
    \A c \in Calls :
        /\ started[c] \/ http[c] # <<>> => parsed[c].state = "parsed" /\ parsed[c].ok
        /\ parsed[c].state = "parsed" /\ ~parsed[c].ok =>
              Failed(c) /\ ~started[c] /\ http[c] = <<>>
        /\ Active(c) /\ request[c].name \in EightNames /\ ViolatesConstraints(c) =>
              Failed(c) /\ ~started[c] /\ http[c] = <<>>

\* A journey call without the required `from` failed in validation, before the
\* handler was entered.
C2_Witness ==
    \E c \in Calls :
        /\ Failed(c)
        /\ request[c].name = "bvg_journey_plan"
        /\ request[c].args.kind = "object"
        /\ ~Supplies(c, "from")
        /\ parsed[c].state = "parsed" /\ parsed[c].issues = {"from"}
        /\ ~started[c]

\* The keys of the arguments of call c that the tool's schema does not declare.
UnknownKeys(c) ==
    IF request[c].args.kind = "object" /\ request[c].name \in EightNames
    THEN DOMAIN request[c].args.m \ DOMAIN SchemaOf(request[c].name)
    ELSE {}

\* The arguments of call c without the keys the schema does not declare.
WithoutUnknownKeys(c) ==
    ArgsObject([k \in DOMAIN request[c].args.m \ UnknownKeys(c) |-> request[c].args.m[k]])

\* C3 as stated: a key that the tool's schema does not declare fails the
\* invocation in validation: the handler is not run and no request is made.
C3_UnknownKeyRejected ==
    \A c \in Calls :
        Active(c) /\ UnknownKeys(c) # {} => Failed(c) /\ ~started[c] /\ http[c] = <<>>

\* C3 as amended: a key that the tool's schema does not declare is ignored:
\* validation accepts or rejects the mapping exactly as it does the mapping
\* without that key and yields the same parameters, which never hold the key,
\* and no request carries it.
C3_UnknownKeyIgnored ==
    \A c \in Calls :
        Active(c) /\ request[c].name \in EightNames /\ request[c].args.kind = "object" =>
            /\ parsed[c].ok = SchemaParse(SchemaOf(request[c].name), WithoutUnknownKeys(c)).ok
            /\ parsed[c].data = SchemaParse(SchemaOf(request[c].name), WithoutUnknownKeys(c)).data
            /\ DOMAIN parsed[c].data \subseteq DOMAIN SchemaOf(request[c].name)
            /\ \A k \in UnknownKeys(c) : QueryLacks(c, k)

\* A call with an undeclared key passed validation and made its request, which
\* does not carry the key.
C3_Witness ==
    \E c \in Calls :
        /\ pc[c] = "awaiting"
        /\ Supplies(c, ExtraKey)
        /\ parsed[c].ok
        /\ Len(http[c]) = 1
        /\ ExtraKey \notin DOMAIN http[c][1].query

\* The declared default of every field that has one.
DeclaredDefaults(name) ==
    CASE name = "bvg_locations_search" ->
            [results |-> Num(10), addresses |-> Bool(TRUE), poi |-> Bool(TRUE),
             linesOfStops |-> Bool(FALSE), language |-> Str("en")]
      [] name = "bvg_locations_nearby" ->
            [results |-> Num(8), distance |-> Num(1000), stops |-> Bool(TRUE),
             poi |-> Bool(FALSE), linesOfStops |-> Bool(FALSE), language |-> Str("en")]
      [] name = "bvg_stop_details" -> [linesOfStops |-> Bool(FALSE), language |-> Str("en")]
      [] name \in {"bvg_stop_departures", "bvg_stop_arrivals"} ->
            [duration |-> Num(120), results |-> Num(10), linesOfStops |-> Bool(FALSE),
             remarks |-> Bool(TRUE), language |-> Str("en")]
      [] name = "bvg_journey_plan" ->
            [results |-> Num(3), stopovers |-> Bool(FALSE), transfers |-> Num(-1),
             transferTime |-> Num(0), bike |-> Bool(FALSE), walkingSpeed |-> Str("normal"),
             startWithWalking |-> Bool(TRUE), endWithWalking |-> Bool(TRUE),
             language |-> Str("en")]
      [] name = "bvg_trip_details" ->
            [stopovers |-> Bool(TRUE), polyline |-> Bool(FALSE), language |-> Str("en")]
      [] name = "bvg_radar" ->
            [results |-> Num(256), duration |-> Num(30), frames |-> Num(3),
             polylines |-> Bool(TRUE), language |-> Str("en")]
      [] OTHER -> NoFields

\* The value the handler is to see for key k of call c: the supplied one, or
\* the declared default.
SuppliedOrDefault(c, k) ==
    IF Supplies(c, k) THEN request[c].args.m[k] ELSE DeclaredDefaults(request[c].name)[k]

\* C4: for every field with a declared default, the handler receives the
\* default and the query carries it when the caller omits the field, and they
\* hold the caller's value when a valid one is supplied.
C4_DefaultsApplied ==
    \A c \in Calls :
        Active(c) /\ parsed[c].ok =>
            \A k \in DOMAIN DeclaredDefaults(request[c].name) :
                /\ k \in DOMAIN parsed[c].data
                /\ parsed[c].data[k] = SuppliedOrDefault(c, k)
                /\ http[c] # <<>> => QueryHas(c, k, JsString(SuppliedOrDefault(c, k)))

\* A journey call that names only `from` and `to` made its request with the
\* defaults in the query.
C4_Witness ==
    \E c \in Calls :
        /\ pc[c] = "awaiting"
        /\ request[c].name = "bvg_journey_plan"
        /\ DOMAIN request[c].args.m = {"from", "to"}
        /\ QueryHas(c, "results", "3")
        /\ QueryHas(c, "transfers", "-1")
        /\ QueryHas(c, "transferTime", "0")
        /\ QueryHas(c, "bike", "false")
        /\ QueryHas(c, "walkingSpeed", "normal")
        /\ QueryHas(c, "startWithWalking", "true")
        /\ QueryHas(c, "language", "en")

\* Call c is a journey call whose arguments hold both times as strings.
BothTimesSupplied(c) ==
    /\ request[c].name = "bvg_journey_plan"
    /\ Supplies(c, "departure") /\ request[c].args.m["departure"].t = "string"
    /\ Supplies(c, "arrival") /\ request[c].args.m["arrival"].t = "string"

\* C5: a journey call that supplies both `departure` and `arrival`, whatever
\* strings they are and whatever the other fields, fails and makes no request.
C5_BothTimesFail ==
    \A c \in Calls : Active(c) /\ BothTimesSupplied(c) => Failed(c) /\ http[c] = <<>>

\* Call c is a journey call with valid arguments that do not hold key k.
JourneyWithout(c, k) ==
    /\ request[c].name = "bvg_journey_plan"
    /\ Active(c) /\ parsed[c].ok
    /\ ~Supplies(c, k)

\* C6: a valid journey call that supplies neither `departure` nor `arrival`
\* makes exactly one GET /journeys whose query holds neither key; when exactly
\* one of the two is supplied, the query holds that key with the supplied value
\* and not the other.
C6_TimesCarriedAsSupplied ==
    \A c \in Calls :
        /\ JourneyWithout(c, "departure") /\ JourneyWithout(c, "arrival") =>
              /\ Len(http[c]) = 1
              /\ http[c][1].path = <<<<"j", "o", "u", "r", "n", "e", "y", "s">>>>
              /\ QueryLacks(c, "departure") /\ QueryLacks(c, "arrival")
        /\ JourneyWithout(c, "departure") /\ Supplies(c, "arrival") =>
              /\ QueryHas(c, "arrival", request[c].args.m["arrival"].s)
              /\ QueryLacks(c, "departure")
        /\ JourneyWithout(c, "arrival") /\ Supplies(c, "departure") =>
              /\ QueryHas(c, "departure", request[c].args.m["departure"].s)
              /\ QueryLacks(c, "arrival")

\* The number a radar call supplies for a bound.
Bound(c, k) == request[c].args.m[k]

\* The bounding box of call c is inverted: north <= south or east <= west.
InvertedBox(c) ==
    \/ NumLeq(Bound(c, "north"), Bound(c, "south"))
    \/ NumLeq(Bound(c, "east"), Bound(c, "west"))

\* C7: a schema-valid radar call fails without any request exactly when
\* north <= south or east <= west; otherwise the domain check passes and exactly
\* one GET /radar is made, carrying the four bounds.
C7_RadarBoxCheck ==
    \A c \in Calls :
        Active(c) /\ request[c].name = "bvg_radar" /\ parsed[c].ok =>
            IF InvertedBox(c)
            THEN Failed(c) /\ http[c] = <<>>
            ELSE /\ Len(http[c]) = 1
                 /\ http[c][1].path = <<<<"r", "a", "d", "a", "r">>>>
                 /\ \A k \in {"north", "west", "south", "east"} :
                        QueryHas(c, k, JsString(Bound(c, k)))

\* The radar call north=52.6, south=52.5, east=13.5, west=13.3 made its one
\* request with the four bounds.
C7_Witness ==
    \E c \in Calls :
        /\ pc[c] = "awaiting" /\ request[c].name = "bvg_radar"
        /\ Bound(c, "north") = Dec(526, 1) /\ Bound(c, "south") = Dec(525, 1)
        /\ ~InvertedBox(c)
        /\ Len(http[c]) = 1
        /\ QueryHas(c, "north", "52.6") /\ QueryHas(c, "south", "52.5")
        /\ QueryHas(c, "east", "13.5") /\ QueryHas(c, "west", "13.3")

\* The inclusive bounds of the tool catalog.
CatalogBounds(name) ==
    CASE name = "bvg_journey_plan" ->
            [results |-> <<Num(1), Num(6)>>, transfers |-> <<Num(-1), Num(10)>>,
             transferTime |-> <<Num(0), Num(60)>>]
      [] name = "bvg_radar" ->
            [results |-> <<Num(1), Num(256)>>, duration |-> <<Num(1), Num(30)>>,
             frames |-> <<Num(1), Num(20)>>]
      [] OTHER -> NoFields

\* Call c supplies a number for key k.
SuppliesNumber(c, k) == Supplies(c, k) /\ request[c].args.m[k].t = "number"

WithinBounds(v, bounds) == NumLeq(bounds[1], v) /\ NumLeq(v, bounds[2])

\* C8: the numeric bounds are inclusive and are those of the catalog: a number
\* below the minimum or above the maximum of its field fails the invocation in
\* validation with no request made, and a number from the minimum to the
\* maximum, both included, is not refused.
C8_InclusiveBounds ==
    \A c \in Calls :
        Active(c) =>
            \A k \in DOMAIN CatalogBounds(request[c].name) :
                SuppliesNumber(c, k) =>
                    IF WithinBounds(request[c].args.m[k], CatalogBounds(request[c].name)[k])
                    THEN k \notin parsed[c].issues
                    ELSE /\ Failed(c) /\ ~parsed[c].ok /\ k \in parsed[c].issues
                         /\ ~started[c] /\ http[c] = <<>>

\* A radar call with frames at its maximum and results at its minimum made
\* its request.
C8_Witness ==
    \E c \in Calls :
        /\ pc[c] = "awaiting" /\ request[c].name = "bvg_radar"
        /\ Supplies(c, "frames") /\ request[c].args.m["frames"] = Num(20)
        /\ Supplies(c, "results") /\ request[c].args.m["results"] = Num(1)
        /\ parsed[c].ok
        /\ QueryHas(c, "frames", "20") /\ QueryHas(c, "results", "1")

\* The messages of the failures that an argument problem causes.
ArgumentFailures ==
    {"ZodError",
     "Invalid coordinates format. Expected \"latitude,longitude\"",
     "Latitude must be between -90 and 90",
     "Longitude must be between -180 and 180",
     "Invalid stop ID provided",
     "Cannot specify both departure and arrival time. Choose one.",
     "Northern boundary must be greater than southern boundary",
     "Eastern boundary must be greater than western boundary"}

\* Call c failed because of its arguments.
FailedOnArguments(c) ==
    /\ Failed(c)
    /\ response[c].message # <<>>
    /\ response[c].message[Len(response[c].message)] \in ArgumentFailures

\* C9: an invocation that fails because of an argument problem has made no
\* request when it fails, and makes none afterwards.
C9_NoRequestOnArgumentFailure ==
    /\ [](\A c \in Calls : FailedOnArguments(c) => http[c] = <<>>)
    /\ [][\A c \in Calls : pc[c] = "done" => http'[c] = http[c]]_vars

\* A nearby call with a latitude out of range failed in the handler, and no
\* request had been made.
C9_Witness ==
    \E c \in Calls :
        /\ FailedOnArguments(c)
        /\ request[c].name = "bvg_locations_nearby"
        /\ Supplies(c, "coordinates") /\ request[c].args.m["coordinates"] = Str("91,13.4")
        /\ started[c]
        /\ response[c].message =
              <<"Tool execution failed: ", "Latitude must be between -90 and 90">>
        /\ http[c] = <<>>

\* The decoded body is an object with `error` true and a string `msg`.
ErrorShaped(body) ==
    /\ body.t = "object"
    /\ "error" \in DOMAIN body.o /\ body.o["error"] = Bool(TRUE)
    /\ "msg" \in DOMAIN body.o /\ body.o["msg"].t = "string"

\* The request of call c was answered with a 2xx status and a decodable body.
Answered2xx(c) ==
    /\ client[c].state = "settled"
    /\ settled[c].kind = "response"
    /\ settled[c].status \in 200..299
    /\ settled[c].decodable

\* C10: on a 2xx response with a decodable body, the client fails with an
\* upstream error that carries the body's `msg` exactly when the body is an
\* object with `error` true and a string `msg`, and the invocation then fails
\* with that text in its message; every other body is returned to the handler
\* unchanged.
C10_ErrorShapedBodyFails ==
    \A c \in Calls :
        Answered2xx(c) =>
            IF ErrorShaped(settled[c].body)
            THEN /\ ~client[c].ok
                 /\ client[c].error.message =
                       <<"Failed to fetch from BVG API: ", "BVG API error: ",
                         settled[c].body.o["msg"].s>>
                 /\ Failed(c)
                 /\ response[c].message[Len(response[c].message)] = settled[c].body.o["msg"].s
            ELSE client[c].ok /\ client[c].value = settled[c].body

\* Status 200 with {error: true, msg: "no results"} failed the invocation with
\* "no results" in the message.
C10_Witness ==
    \E c \in Calls :
        /\ Answered2xx(c)
        /\ settled[c].status = 200
        /\ settled[c].body = Obj([error |-> Bool(TRUE), msg |-> Str("no results")])
        /\ Failed(c)
        /\ response[c].code = "InternalError"
        /\ response[c].message[Len(response[c].message)] = "no results"

\* The request of call c was answered with a status outside 200..299.
AnsweredNon2xx(c) ==
    /\ client[c].state = "settled"
    /\ settled[c].kind = "response"
    /\ settled[c].status \notin 200..299

\* The text of the last part of the message of the response of call c.
Cause(c) == response[c].message[Len(response[c].message)]

\* C11: on a response whose status is not in the 2xx range the client fails,
\* never returning a value, and the failure message carries that status code.
C11_Non2xxFailsWithStatus ==
    \A c \in Calls :
        AnsweredNon2xx(c) =>
            /\ ~client[c].ok
            /\ client[c].value = Undefined
            /\ client[c].error.message =
                  <<"Failed to fetch from BVG API: ", "HTTP error! status: ",
                    ToString(settled[c].status)>>
            /\ Failed(c)
            /\ Cause(c) = ToString(settled[c].status)

\* A request answered 300, just past the 2xx range, failed the invocation with
\* "300" in the message.
C11_Witness ==
    \E c \in Calls :
        /\ AnsweredNon2xx(c)
        /\ settled[c].status = 300
        /\ Failed(c)
        /\ response[c].code = "InternalError"
        /\ Cause(c) = "300"

\* The message of the error response of call c holds the text.
Carries(c, text) ==
    /\ Failed(c)
    /\ \E i \in DOMAIN response[c].message : response[c].message[i] = text

\* C12: when the upstream answers a non-2xx status with an error-shaped body
\* ({error: true, msg: <string>}), the failure carries the body's `msg` text in
\* addition to the status code.
C12_Non2xxCarriesMsg ==
    \A c \in Calls :
        AnsweredNon2xx(c) /\ settled[c].decodable /\ ErrorShaped(settled[c].body) =>
            /\ Carries(c, ToString(settled[c].status))
            /\ Carries(c, settled[c].body.o["msg"].s)

\* The tools whose result is the upstream body itself.
WholeBodyTools == {"bvg_locations_search", "bvg_locations_nearby", "bvg_stop_details", "bvg_radar"}

\* The field of the body that the catalog designates as the result of the
\* other tools.
CatalogField(name) ==
    CASE name = "bvg_stop_departures" -> "departures"
      [] name = "bvg_stop_arrivals" -> "arrivals"
      [] name = "bvg_journey_plan" -> "journeys"
      [] name = "bvg_trip_details" -> "trip"

\* The request of call c got a 2xx answer whose body is not error-shaped.
AnsweredBody(c) == Answered2xx(c) /\ ~ErrorShaped(settled[c].body)

\* Call c answered with the given value as its result.
Answers(c, value) ==
    /\ pc[c] = "done"
    /\ response[c].kind = "result"
    /\ response[c].text = value

\* C13: for a successful body B that is not error-shaped, the handler's result
\* is exactly the part the catalog designates, nothing added, removed or
\* reordered: B itself for locations_search, locations_nearby, stop_details and
\* radar, and B.departures, B.arrivals, B.journeys, B.trip for the four others.
C13_ResultIsDesignatedPart ==
    \A c \in Calls :
        AnsweredBody(c) =>
            IF request[c].name \in WholeBodyTools
            THEN Answers(c, settled[c].body)
            ELSE settled[c].body.t = "object"
                 /\ CatalogField(request[c].name) \in DOMAIN settled[c].body.o =>
                    Answers(c, settled[c].body.o[CatalogField(request[c].name)])

\* {arrivals: [A, B]} yielded exactly [A, B] from the arrivals handler.
C13_Witness ==
    \E c \in Calls :
        /\ AnsweredBody(c)
        /\ request[c].name = "bvg_stop_arrivals"
        /\ settled[c].body = Obj([arrivals |-> Arr(<<LocationA, LocationB>>)])
        /\ Answers(c, Arr(<<LocationA, LocationB>>))
        /\ response[c].defined

\* The request of call c failed: no response, a status outside 2xx, a body that
\* does not decode, or an error-shaped body.
RequestFailed(c) ==
    /\ client[c].state = "settled"
    /\ \/ settled[c].kind = "reject"
       \/ AnsweredNon2xx(c)
       \/ ~settled[c].decodable
       \/ ErrorShaped(settled[c].body)

\* C14: an invocation issues at most one HTTP request, and if that request
\* fails (network failure, non-2xx status, error-shaped body) the invocation
\* fails with no second request issued, then or later.
C14_NoRetry ==
    /\ [](\A c \in Calls :
             /\ Len(http[c]) <= 1
             /\ RequestFailed(c) => Failed(c) /\ Len(http[c]) = 1)
    /\ [][\A c \in Calls : http[c] # <<>> => http'[c] = http[c]]_vars

\* A request that met a network failure ended the invocation in an error with
\* that one request made.
C14_Witness ==
    \E c \in Calls :
        /\ RequestFailed(c)
        /\ settled[c].kind = "reject"
        /\ Failed(c)
        /\ Len(http[c]) = 1

\* C15: every completed invocation ends either in an error response or in a
\* success response whose text is the JSON serialization of the complete
\* result; for every 2xx body, one without the wrapper field the handler
\* expects included, a success response carries a defined text.
C15_AllOrNothing ==
    \A c \in Calls :
        pc[c] = "done" =>
            /\ response[c].kind \in {"error", "result"}
            /\ response[c].kind = "result" => response[c].defined

\* The prefix that names the operation of each tool.
OperationPrefix(name) ==
    CASE name = "bvg_locations_search" -> "Failed to search locations: "
      [] name = "bvg_locations_nearby" -> "Failed to find nearby locations: "
      [] name = "bvg_stop_details" -> "Failed to get stop details: "
      [] name = "bvg_stop_departures" -> "Failed to get stop departures: "
      [] name = "bvg_stop_arrivals" -> "Failed to get stop arrivals: "
      [] name = "bvg_journey_plan" -> "Failed to plan journey: "
      [] name = "bvg_trip_details" -> "Failed to get trip details: "
      [] name = "bvg_radar" -> "Failed to execute radar search: "

\* The text of the cause of the failed request of call c: the failure
\* description, the status code or the upstream msg.
CauseText(c) ==
    IF settled[c].kind = "reject" THEN <<"fetch failed">>
    ELSE IF settled[c].status \notin 200..299
    THEN <<"HTTP error! status: ", ToString(settled[c].status)>>
    ELSE IF ~settled[c].decodable THEN <<"Unexpected token">>
    ELSE <<"BVG API error: ", settled[c].body.o["msg"].s>>

\* C16: when the HTTP client fails inside a handler (network failure, non-2xx
\* status, error-shaped body), the invocation ends in an 'internal error' whose
\* message is the cause text preceded, outermost first, by the dispatcher
\* prefix, the prefix of the handler of the invoked tool and the client prefix.
C16_ErrorComposition ==
    \A c \in Calls :
        RequestFailed(c) =>
            /\ Failed(c)
            /\ response[c].code = "InternalError"
            /\ response[c].message =
                  <<"Tool execution failed: ", OperationPrefix(request[c].name),
                    "Failed to fetch from BVG API: ">> \o CauseText(c)

\* An arrivals call whose request was answered 404 ended in an internal error
\* with the three prefixes and the status.
C16_Witness ==
    \E c \in Calls :
        /\ RequestFailed(c)
        /\ request[c].name = "bvg_stop_arrivals"
        /\ settled[c].status = 404
        /\ response[c].message =
              <<"Tool execution failed: ", "Failed to get stop arrivals: ",
                "Failed to fetch from BVG API: ", "HTTP error! status: ", "404">>

\* The messages of the handlers' own domain checks.
DomainCheckTexts == ArgumentFailures \ {"ZodError"}

\* The handler of call c was entered and the invocation failed.
FailedInHandler(c) == Failed(c) /\ started[c]

\* C17 as stated: every failure raised inside a handler, the handler's own
\* domain checks included, reaches the dispatcher with a message that carries
\* that handler's operation prefix.
C17_HandlerPrefixOnEveryFailure ==
    \A c \in Calls :
        FailedInHandler(c) =>
            /\ Len(response[c].message) >= 3
            /\ response[c].message[2] = OperationPrefix(request[c].name)

\* C17 as amended: every failure raised inside a handler reaches the
\* dispatcher as a message-bearing error; a failure of the HTTP client or of
\* reading its result carries that handler's operation prefix, and a failure of
\* the handler's own domain check carries the check's own message alone,
\* without the handler's prefix.
C17_PrefixOnlyInsideTry ==
    \A c \in Calls :
        FailedInHandler(c) =>
            /\ response[c].code = "InternalError"
            /\ response[c].message[1] = "Tool execution failed: "
            /\ IF client[c].state = "settled"
               THEN /\ Len(response[c].message) >= 3
                    /\ response[c].message[2] = OperationPrefix(request[c].name)
               ELSE /\ Len(response[c].message) = 2
                    /\ response[c].message[2] \in DomainCheckTexts
                    /\ http[c] = <<>>

\* A radar call with an inverted box failed with the check's message and no
\* handler prefix.
C17_Witness ==
    \E c \in Calls :
        /\ FailedInHandler(c)
        /\ request[c].name = "bvg_radar"
        /\ client[c].state = "none"
        /\ response[c].message =
              <<"Tool execution failed: ",
                "Northern boundary must be greater than southern boundary">>

\* Call c is a nearby call, valid for the schema, with the given coordinates.
NearbyWith(c, coords) ==
    /\ Active(c)
    /\ request[c].name = "bvg_locations_nearby"
    /\ parsed[c].ok
    /\ Supplies(c, "coordinates")
    /\ request[c].args.m["coordinates"] = Str(coords)

\* Strings that are not of the form "<number>,<number>": no comma, an empty
\* component, a component that is no number, three components, and a component
\* with characters after the number.
MalformedCoordinates == {"52.52", "", "52.5,", "abc,13.4", "1,2,3", "52.5abc,13.4"}

\* C18: parseCoordinates fails on every string that is not of the exact form
\* "<number>,<number>" (whitespace around each component trimmed), "1,2,3" and
\* "52.5abc,13.4" included: the nearby call fails and makes no request.
C18_MalformedCoordinatesFail ==
    \A c \in Calls :
        \A coords \in MalformedCoordinates :
            NearbyWith(c, coords) => Failed(c) /\ http[c] = <<>>

\* Well-formed "<lat>,<lon>" strings, each with the two numbers it denotes and
\* the text in which a query carries them.
Pair(text, lat, latText, lon, lonText) ==
    [text |-> text, lat |-> lat, latText |-> latText, lon |-> lon, lonText |-> lonText]

WellFormedCoordinates ==
    {Pair("52.5200,13.4050", Dec(5252, 2), "52.52", Dec(13405, 3), "13.405"),
     Pair(" 52.5 , 13.4 ", Dec(525, 1), "52.5", Dec(134, 1), "13.4"),
     Pair("-90,-180", Num(-90), "-90", Num(-180), "-180"),
     Pair("90,180", Num(90), "90", Num(180), "180"),
     Pair("91,13.4", Num(91), "91", Dec(134, 1), "13.4"),
     Pair("-90.5,13.4", Dec(-905, 1), "-90.5", Dec(134, 1), "13.4"),
     Pair("52.5,181", Dec(525, 1), "52.5", Num(181), "181"),
     Pair("52.5,-180.5", Dec(525, 1), "52.5", Dec(-1805, 1), "-180.5")}

\* lat < -90, lat > 90, lon < -180 or lon > 180.
OutOfRange(w) ==
    \/ NumLt(w.lat, Num(-90)) \/ NumLt(Num(90), w.lat)
    \/ NumLt(w.lon, Num(-180)) \/ NumLt(Num(180), w.lon)

\* C19: on a well-formed "<lat>,<lon>" string parseCoordinates fails if
\* lat < -90, lat > 90, lon < -180 or lon > 180, and otherwise, the bounds
\* included, returns the pair (lat, lon) in that order; locations_nearby then
\* sends the two numbers as `latitude` and `longitude` in the query of
\* GET /locations/nearby and sends no `coordinates` key.
C19_CoordinateRanges ==
    \A c \in Calls :
        \A w \in WellFormedCoordinates :
            NearbyWith(c, w.text) =>
                IF OutOfRange(w)
                THEN Failed(c) /\ http[c] = <<>>
                ELSE /\ Len(http[c]) = 1
                     /\ http[c][1].path =
                           <<<<"l", "o", "c", "a", "t", "i", "o", "n", "s">>,
                             <<"n", "e", "a", "r", "b", "y">>>>
                     /\ QueryHas(c, "latitude", w.latText)
                     /\ QueryHas(c, "longitude", w.lonText)
                     /\ QueryLacks(c, "coordinates")

\* The nearby call with "90,180", both at their upper bounds, made its request
\* with latitude 90 and longitude 180.
C19_Witness ==
    \E c \in Calls :
        /\ NearbyWith(c, "90,180")
        /\ pc[c] = "awaiting"
        /\ QueryHas(c, "latitude", "90")
        /\ QueryHas(c, "longitude", "180")
        /\ QueryLacks(c, "coordinates")

\* What an invocation answers when it runs alone, from its tool name, its
\* arguments and the reply to its request.
AloneResponse(name, run, reply) ==
    IF run.threw THEN ErrorResponse(DispatchCatch(run.error))
    ELSE Respond(ExecuteFinish(name, ClientGet(reply)))

\* The step leaves everything of call d as it is.
Untouched(d) ==
    /\ pc'[d] = pc[d] /\ request'[d] = request[d] /\ parsed'[d] = parsed[d]
    /\ started'[d] = started[d] /\ http'[d] = http[d] /\ settled'[d] = settled[d]
    /\ client'[d] = client[d] /\ response'[d] = response[d]

\* C20: with any number of invocations in flight and any interleaving of their
\* steps, the response of each is determined by its own tool name, its own
\* arguments and the reply to its own request; a step of one invocation writes
\* nothing of another, and the shared client's base address never changes.
C20_Independence ==
    /\ [](\A c \in Calls :
             /\ Active(c) =>
                   http[c] = DispatchRun(request[c].name, request[c].args).requests
             /\ pc[c] = "done" =>
                   response[c] = AloneResponse(request[c].name,
                                               DispatchRun(request[c].name, request[c].args),
                                               settled[c]))
    /\ [][\E c \in Calls : \A d \in Calls \ {c} : Untouched(d)]_vars
    /\ [](baseUrl = BVG_API_BASE_URL)
    /\ [][baseUrl' = baseUrl]_vars

\* With a journey invocation still suspended on its request, a departures
\* invocation has been answered with exactly its own result.
C20_Witness ==
    /\ NumCalls >= 2
    /\ pc[1] = "awaiting" /\ request[1].name = "bvg_journey_plan"
    /\ pc[2] = "done" /\ request[2].name = "bvg_stop_departures"
    /\ settled[2].status = 200
    /\ Answers(2, Arr(<<LocationA, LocationB>>))

\* The next step of call d can be taken: its request delivered, its request
\* validated and its handler run up to the HTTP request, or the reply to its
\* request handled and the response given.
CanProceed(d) ==
    /\ pc[d] = "idle" => ENABLED CallToolAmong(d)
    /\ pc[d] = "received" => ENABLED Dispatch(d)
    /\ pc[d] = "awaiting" => ENABLED FetchSettlesAmong(d)

\* C21: while an invocation is suspended on its HTTP request, every other
\* invocation, of the same tool or of another, can be validated, issue its own
\* request and complete: no step of one waits for the request of another.
C21_NonBlocking ==
    \A c \in Calls :
        pc[c] = "awaiting" => \A d \in Calls \ {c} : CanProceed(d)

\* With one departures invocation still suspended on its request, another
\* departures invocation has made its own request and has been answered.
C21_Witness ==
    /\ NumCalls >= 2
    /\ pc[2] = "awaiting" /\ request[2].name = "bvg_stop_departures"
    /\ Len(http[2]) = 1
    /\ pc[1] = "done" /\ request[1].name = "bvg_stop_departures"
    /\ Len(http[1]) = 1
    /\ client[1].state = "settled"
    /\ response[1].kind = "result"

\* The names of the tools of a list-tools response, in order.
NamesOf(tools) == [i \in DOMAIN tools |-> tools[i].name]

\* The names the handler's array advertises.
AdvertisedNames == {ListToolsResult[i].name : i \in DOMAIN ListToolsResult}

\* C22: 'list tools' returns the same catalog of exactly the eight tools
\* whatever calls preceded it, and the names it advertises are exactly the
\* names 'call tool' dispatches to a handler: an advertised name reaches its
\* case of the switch, and any other name yields 'method not found'.
C22_CatalogConsistency ==
    /\ catalog # <<>> =>
          NamesOf(catalog) =
             <<"bvg_locations_search", "bvg_locations_nearby", "bvg_stop_details",
               "bvg_stop_departures", "bvg_stop_arrivals", "bvg_journey_plan",
               "bvg_trip_details", "bvg_radar">>
    /\ \A c \in Calls :
          Active(c) =>
             IF request[c].name \in AdvertisedNames
             THEN /\ parsed[c].state = "parsed"
                  /\ ~(response[c].kind = "error" /\ response[c].code = "MethodNotFound")
             ELSE /\ Failed(c) /\ response[c].code = "MethodNotFound"
                  /\ parsed[c].state = "none"

\* After an arrivals call was answered with a result, the list of tools is
\* the eight, with the arrivals tool among them.
C22_Witness ==
    /\ Len(catalog) = 8
    /\ catalog[5].name = "bvg_stop_arrivals"
    /\ pc[1] = "done"
    /\ request[1].name = "bvg_stop_arrivals"
    /\ response[1].kind = "result"

\* The input description 'list tools' advertises for the two tools that spell
\* it out.
AdvertisedInput(name) ==
    CASE name = "bvg_locations_search" -> locationsSearchInput
      [] name = "bvg_locations_nearby" -> nearbyLocationsInput

\* C23: the input description a tool advertises accepts exactly the argument
\* mappings that the tool's schema accepts at dispatch; for locations_nearby a
\* `coordinates` string fits the advertised description if and only if
\* validation accepts it.
C23_AdvertisedShapeLossless ==
    \A c \in Calls :
        /\ Active(c)
        /\ request[c].name \in {"bvg_locations_search", "bvg_locations_nearby"}
        /\ request[c].args.kind = "object"
        => (JSchemaAccepts(AdvertisedInput(request[c].name), request[c].args.m)
               <=> parsed[c].ok)

\* What a departures invocation does with the arguments of call c.
AsDepartures(c) == DispatchRun("bvg_stop_departures", request[c].args)

\* A path without its last segment, and that segment.
PathStem(path) == SubSeq(path, 1, Len(path) - 1)
PathSuffix(path) == path[Len(path)]

\* The two requests differ in the path suffix alone.
MirrorsRequest(arrivals, departures) ==
    /\ arrivals.query = departures.query
    /\ PathStem(arrivals.path) = PathStem(departures.path)
    /\ PathSuffix(arrivals.path) = <<"a", "r", "r", "i", "v", "a", "l", "s">>
    /\ PathSuffix(departures.path) = <<"d", "e", "p", "a", "r", "t", "u", "r", "e", "s">>

\* The two answers to one reply differ in the handler's prefix and in the
\* unwrapped field alone.
MirrorsAnswer(c, departures) ==
    IF response[c].kind = "error"
    THEN /\ departures.kind = "error"
         /\ response[c].code = departures.code
         /\ Len(response[c].message) = Len(departures.message)
         /\ \A i \in DOMAIN departures.message :
               IF i = 2
               THEN /\ response[c].message[i] = "Failed to get stop arrivals: "
                    /\ departures.message[i] = "Failed to get stop departures: "
               ELSE response[c].message[i] = departures.message[i]
    ELSE settled[c].body.t = "object" =>
            response[c].text = Get(settled[c].body.o, "arrivals")

\* C24: stop_arrivals accepts or rejects every argument mapping exactly as
\* stop_departures does, applies the same defaults and builds the same query;
\* the two invocations differ only in the path suffix, the unwrapped field and
\* the error prefix.
C24_ArrivalsMirrorDepartures ==
    \A c \in Calls :
        Active(c) /\ request[c].name = "bvg_stop_arrivals" =>
            /\ parsed[c] = AsDepartures(c).parsed
            /\ started[c] = AsDepartures(c).started
            /\ Len(http[c]) = Len(AsDepartures(c).requests)
            /\ \A i \in DOMAIN http[c] : MirrorsRequest(http[c][i], AsDepartures(c).requests[i])
            /\ pc[c] = "done" /\ client[c].state = "none" =>
                  response[c] = ErrorResponse(DispatchCatch(AsDepartures(c).error))
            /\ pc[c] = "done" /\ client[c].state = "settled" =>
                  MirrorsAnswer(c, AloneResponse("bvg_stop_departures", AsDepartures(c), settled[c]))

\* An arrivals call with `when` and all defaults made the request a departures
\* call makes, but for the path suffix.
C24_Witness ==
    \E c \in Calls :
        /\ pc[c] = "awaiting" /\ request[c].name = "bvg_stop_arrivals"
        /\ Supplies(c, "when")
        /\ QueryHas(c, "when", "x")
        /\ QueryHas(c, "duration", "120")
        /\ QueryHas(c, "remarks", "true")
        /\ http[c][1].path =
              <<<<"s", "t", "o", "p", "s">>,
                <<"9", "0", "0", "1", "0", "0", "0", "0", "3">>,
                <<"a", "r", "r", "i", "v", "a", "l", "s">>>>

\* The keys each handler always puts in its parameter mapping.
FixedKeys(name) ==
    CASE name = "bvg_locations_search" ->
            {"query", "results", "addresses", "poi", "linesOfStops", "language"}
      [] name = "bvg_locations_nearby" ->
            {"latitude", "longitude", "results", "distance", "stops", "poi", "linesOfStops",
             "language"}
      [] name = "bvg_stop_details" -> {"linesOfStops", "language"}
      [] name \in {"bvg_stop_departures", "bvg_stop_arrivals"} ->
            {"duration", "results", "linesOfStops", "remarks", "language"}
      [] name = "bvg_journey_plan" ->
            {"from", "to", "results", "stopovers", "transfers", "transferTime", "bike",
             "walkingSpeed", "startWithWalking", "endWithWalking", "language"}
      [] name = "bvg_trip_details" -> {"stopovers", "polyline", "language"}
      [] name = "bvg_radar" ->
            {"north", "west", "south", "east", "results", "duration", "frames", "polylines",
             "language"}

\* The optional fields without default of each tool.
OptionalKeys(name) ==
    CASE name \in {"bvg_stop_departures", "bvg_stop_arrivals"} -> {"when"}
      [] name = "bvg_journey_plan" -> {"via", "departure", "arrival", "accessibility"}
      [] name = "bvg_trip_details" -> {"lineName"}
      [] OTHER -> {}

\* The caller of call c supplied a non-empty value for key k.
SuppliesNonEmpty(c, k) == Supplies(c, k) /\ request[c].args.m[k].s # ""

\* The text a query carries for a parameter: "true"/"false" for a boolean, the
\* decimal numeral for a number, the string itself for a string.
Sent(v, text) ==
    CASE v.t = "boolean" -> text = (IF v.b THEN "true" ELSE "false")
      [] v.t = "number" -> text = JsNumberString(v) /\ text \notin {"", "NaN", "undefined", "null"}
      [] v.t = "string" -> text = v.s
      [] OTHER -> FALSE

\* C25: the query of every request holds exactly one entry per key of the
\* handler's parameter mapping whose value is neither null nor undefined,
\* stringified (false and 0 are sent), and no other key; an optional field
\* without default is there if and only if the caller supplied a non-empty
\* value for it, and is never sent empty, null or undefined.
C25_QueryConstruction ==
    \A c \in Calls :
        \A i \in DOMAIN http[c] :
            /\ DOMAIN http[c][i].query =
                  FixedKeys(request[c].name)
                  \cup {k \in OptionalKeys(request[c].name) : SuppliesNonEmpty(c, k)}
            /\ \A k \in DOMAIN http[c][i].query \ {"latitude", "longitude"} :
                  Sent(parsed[c].data[k], http[c][i].query[k])
            /\ \A k \in OptionalKeys(request[c].name) \cap DOMAIN http[c][i].query :
                  http[c][i].query[k] \notin {"", "null", "undefined"}

\* A journey call with `via` and an empty `departure` made its request with
\* `via`, without `departure`, and with bike=false and transferTime=0.
C25_Witness ==
    \E c \in Calls :
        /\ pc[c] = "awaiting" /\ request[c].name = "bvg_journey_plan"
        /\ Supplies(c, "departure") /\ ~SuppliesNonEmpty(c, "departure")
        /\ SuppliesNonEmpty(c, "via")
        /\ QueryHas(c, "via", "x")
        /\ QueryLacks(c, "departure")
        /\ QueryHas(c, "bike", "false")
        /\ QueryHas(c, "transferTime", "0")

\* The key of the id that each of the four tools puts in its path, the first
\* segment of that path and the segments after the id.
IdKey(name) == IF name = "bvg_trip_details" THEN "tripId" ELSE "stopId"
IdRoot(name) ==
    IF name = "bvg_trip_details" THEN <<"t", "r", "i", "p", "s">> ELSE <<"s", "t", "o", "p", "s">>
IdSuffix(name) ==
    CASE name = "bvg_stop_departures" -> <<<<"d", "e", "p", "a", "r", "t", "u", "r", "e", "s">>>>
      [] name = "bvg_stop_arrivals" -> <<<<"a", "r", "r", "i", "v", "a", "l", "s">>>>
      [] OTHER -> <<>>

\* C26: for every non-empty stopId or tripId, dot segments such as ".."
\* included, the request targets /stops/<id>, /stops/<id>/departures,
\* /stops/<id>/arrivals or /trips/<id> with the id as exactly one path segment;
\* the id changes neither the endpoint path nor the query parameters.
C26_PathParameterContained ==
    \A c \in Calls :
        /\ Active(c)
        /\ request[c].name \in {"bvg_stop_details", "bvg_stop_departures", "bvg_stop_arrivals",
                                "bvg_trip_details"}
        /\ parsed[c].ok
        /\ parsed[c].data[IdKey(request[c].name)].s # ""
        => /\ Len(http[c]) = 1
           /\ http[c][1].path =
                 <<IdRoot(request[c].name),
                   encodeURIComponent(Chars(parsed[c].data[IdKey(request[c].name)].s))>>
                 \o IdSuffix(request[c].name)
           /\ DOMAIN http[c][1].query =
                 FixedKeys(request[c].name)
                 \cup {k \in OptionalKeys(request[c].name) : SuppliesNonEmpty(c, k)}

\* What fetch settled with for call c lets get() return: a 2xx status and a
\* body that decodes and is not error-shaped.
Returnable(c) ==
    /\ settled[c].kind = "response"
    /\ settled[c].status \in 200..299
    /\ settled[c].decodable
    /\ ~ErrorShaped(settled[c].body)

\* C27: get() returns a value only on a 2xx status with a decodable body that
\* is not error-shaped; in every other case (fetch rejects, non-2xx status,
\* undecodable body, error-shaped body, a thrown value that is no Error) it
\* fails with an Error whose message starts with "Failed to fetch from BVG
\* API: " or is "Unknown error occurred while fetching from BVG API"; it never
\* both returns and fails.
C27_ClientNormalizationTotal ==
    \A c \in Calls :
        client[c].state = "settled" =>
            IF Returnable(c)
            THEN /\ client[c].ok
                 /\ client[c].value = settled[c].body
                 /\ client[c].error = NoError
            ELSE /\ ~client[c].ok
                 /\ client[c].value = Undefined
                 /\ client[c].error.class = "Error"
                 /\ \/ /\ Len(client[c].error.message) >= 2
                       /\ client[c].error.message[1] = "Failed to fetch from BVG API: "
                    \/ client[c].error.message =
                          <<"Unknown error occurred while fetching from BVG API">>

\* A fetch that rejected with a value that is no Error made get() fail with the
\* unknown-error message.
C27_Witness ==
    \E c \in Calls :
        /\ client[c].state = "settled"
        /\ settled[c].kind = "reject-value"
        /\ ~client[c].ok
        /\ client[c].error.message = <<"Unknown error occurred while fetching from BVG API">>
        /\ Failed(c)

\* Call c failed the name lookup or the validation of its arguments.
Rejected(c) ==
    \/ ~Registered(request[c].name)
    \/ parsed[c].state = "parsed" /\ ~parsed[c].ok

\* C28: every call-tool invocation eventually produces exactly one response,
\* provided the HTTP call it issues, if any, settles: a delivered request leads
\* to a response, a response once written is never written again, a call has a
\* response exactly when it is finished, and a call that fails the name lookup
\* or the validation never suspends and issues no HTTP call.
C28_ResponseLiveness ==
    /\ \A c \in Calls :
          (pc[c] = "received") ~> (pc[c] = "done" /\ response[c] # NoResponse)
    /\ [][\A c \in Calls : response[c] # NoResponse => response'[c] = response[c]]_vars
    /\ [](\A c \in Calls : response[c] # NoResponse <=> pc[c] = "done")
    /\ [][\A c \in Calls : pc[c] = "received" /\ pc'[c] = "awaiting"
                               => Registered(request[c].name) /\ parsed'[c].ok]_vars
    /\ [](\A c \in Calls : Rejected(c) /\ pc[c] # "received"
                               => /\ pc[c] # "awaiting"
                                  /\ http[c] = <<>>
                                  /\ client[c] = NotCalled)

\* One call was answered after its fetch settled and the other was answered
\* for invalid arguments with no request made.
C28_Witness ==
    \E c, d \in Calls :
        /\ pc[c] = "done" /\ response[c] # NoResponse
        /\ client[c].state = "settled" /\ Len(http[c]) = 1
        /\ pc[d] = "done" /\ response[d] # NoResponse
        /\ Rejected(d) /\ http[d] = <<>> /\ client[d] = NotCalled

====
